---- MODULE Spec2Model ----
(***************************************************************************)
(* Trace assembly pipeline of scripts/phase2/phase1_data_loader.py:        *)
(* locating the per-metric sources of an experiment directory, loading     *)
(* them, merging per-pod and system series into one table, and splitting   *)
(* that table into per-pod traces with metadata.                           *)
(*                                                                         *)
(* Names (directory names, file names) are sequences of tokens.  A token   *)
(* stands for one or more characters: "_", "r", "." and the digits are     *)
(* single characters, every other token is an opaque word without "_" and  *)
(* ".".  Metric names are the words of the python name with the   *)
(* "_" tokens between them.  No word begins with a digit, so a word never  *)
(* extends a run of digits.  Timestamps and pod ids are positive integers  *)
(* ordered as the strings they stand for.  A cell value is an integer      *)
(* that identifies the observation it was read from, or NaN.               *)
(***************************************************************************)
EXTENDS Integers, Sequences, FiniteSets, TLC

VARIABLES fs, pc, exp_dirs, idx, merged_df, all_pod_traces, reported, call, ret,
          normalizer

vars == <<fs, pc, exp_dirs, idx, merged_df, all_pod_traces, reported, call, ret,
          normalizer>>

(***************************************************************************)
(* Bounds of the model                                                     *)
(***************************************************************************)
MaxPods == 2
MaxT == 2
MaxNameLen == 5

(***************************************************************************)
(* Generic helpers                                                         *)
(***************************************************************************)
Range(s) == {s[i] : i \in 1..Len(s)}

RECURSIVE Flatten(_)
Flatten(ss) == IF ss = <<>> THEN <<>> ELSE Head(ss) \o Flatten(Tail(ss))

\* s contains pat as a contiguous run (python substring test)
Contains(s, pat) ==
  \E i \in 0..(Len(s) - Len(pat)) : SubSeq(s, i + 1, i + Len(pat)) = pat

IndexOf(s, x) == CHOOSE i \in 1..Len(s) : s[i] = x

(***************************************************************************)
(* The metric catalog                                                      *)
(***************************************************************************)
METRIC_ORDER ==
  << "cpu_psi", "cpu_usage", "gpu_memory", "gpu_power", "gpu_temperature",
     "gpu_utilization", "inference_latency_avg", "inference_latency_p50",
     "inference_latency_p95", "inference_latency_p99", "inference_throughput",
     "inference_total", "io_psi", "memory_psi", "memory_usage" >>

PER_POD_METRICS ==
  << "cpu_psi", "cpu_usage", "inference_latency_avg", "io_psi", "memory_psi",
     "memory_usage" >>

\* a list of system metrics from which inference_total was left out and
\* into which cpu_usage was put
SystemMetricsMiscounted ==
  << "gpu_memory", "gpu_power", "gpu_temperature", "gpu_utilization",
     "inference_latency_p50", "inference_latency_p95", "inference_latency_p99",
     "inference_throughput", "cpu_usage" >>

SYSTEM_METRICS ==
  << "gpu_memory", "gpu_power", "gpu_temperature", "gpu_utilization",
     "inference_latency_p50", "inference_latency_p95", "inference_latency_p99",
     "inference_throughput", "inference_total" >>

\* The characters of a metric name, as the pattern f"*{metric_name}*.csv" sees them
MetricTokens(m) ==
  CASE m = "cpu_psi" -> <<"cpu", "_", "psi">>
    [] m = "cpu_usage" -> <<"cpu", "_", "usage">>
    [] m = "gpu_memory" -> <<"gpu", "_", "memory">>
    [] m = "gpu_power" -> <<"gpu", "_", "power">>
    [] m = "gpu_temperature" -> <<"gpu", "_", "temperature">>
    [] m = "gpu_utilization" -> <<"gpu", "_", "utilization">>
    [] m = "inference_latency_avg" -> <<"inference", "_", "latency", "_", "avg">>
    [] m = "inference_latency_p50" -> <<"inference", "_", "latency", "_", "p50">>
    [] m = "inference_latency_p95" -> <<"inference", "_", "latency", "_", "p95">>
    [] m = "inference_latency_p99" -> <<"inference", "_", "latency", "_", "p99">>
    [] m = "inference_throughput" -> <<"inference", "_", "throughput">>
    [] m = "inference_total" -> <<"inference", "_", "total">>
    [] m = "io_psi" -> <<"io", "_", "psi">>
    [] m = "memory_psi" -> <<"memory", "_", "psi">>
    [] m = "memory_usage" -> <<"memory", "_", "usage">>

(***************************************************************************)
(* extract_experiment_info: re.match(r'(.+)_r(\d+)', exp_dir_name)         *)
(***************************************************************************)
Digits == {"0", "1", "2", "3", "4", "5", "6", "7", "8", "9"}

DigitVal(d) ==
  CASE d = "0" -> 0 [] d = "1" -> 1 [] d = "2" -> 2 [] d = "3" -> 3
    [] d = "4" -> 4 [] d = "5" -> 5 [] d = "6" -> 6 [] d = "7" -> 7
    [] d = "8" -> 8 [] d = "9" -> 9

\* int() of a run of digits
RECURSIVE IntOf(_)
IntOf(ds) ==
  IF ds = <<>> THEN 0
  ELSE 10 * IntOf(SubSeq(ds, 1, Len(ds) - 1)) + DigitVal(ds[Len(ds)])

\* The positions k at which "_r" and one digit follow a non-empty prefix:
\* the prefix s[1..k] is what (.+) may match there.
MatchSplits(s) ==
  {k \in 1..(Len(s) - 3) :
     s[k + 1] = "_" /\ s[k + 2] = "r" /\ s[k + 3] \in Digits}

\* (\d+) is greedy: the longest run of digits from position `from`
DigitRunEnd(s, from) ==
  CHOOSE e \in from..Len(s) :
    /\ \A j \in from..e : s[j] \in Digits
    /\ (e = Len(s) \/ s[e + 1] \notin Digits)

extract_experiment_info(exp_dir_name) ==
  IF MatchSplits(exp_dir_name) # {}
  THEN LET k == CHOOSE x \in MatchSplits(exp_dir_name) :
                  \A y \in MatchSplits(exp_dir_name) : y <= x
           e == DigitRunEnd(exp_dir_name, k + 3)
       IN [ok |-> TRUE,
           workload |-> SubSeq(exp_dir_name, 1, k),
           replica_count |-> IntOf(SubSeq(exp_dir_name, k + 3, e))]
  ELSE [ok |-> FALSE, error |-> "ValueError"]

(***************************************************************************)
(* find_metric_file: glob(exp_dir / f"*{metric_name}*.csv")                *)
(* A directory is [name, files]; a file is [name, cols, rows].             *)
(***************************************************************************)
\* fnmatch of a file name against "*<metric>*.csv"; glob skips dot-files
GlobMatch(fname, m) ==
  /\ Len(fname) >= 1
  /\ fname[Len(fname)] = ".csv"
  /\ fname[1] # "."
  /\ Contains(SubSeq(fname, 1, Len(fname) - 1), MetricTokens(m))

GlobFiles(exp_dir, m) == {f \in exp_dir.files : GlobMatch(f.name, m)}

\* a locator that falls back to the first of several matches
FindFirstMatch(exp_dir, m) ==
  LET files == GlobFiles(exp_dir, m)
  IN IF Cardinality(files) = 0 THEN [ok |-> FALSE, error |-> "FileNotFoundError"]
     ELSE [ok |-> TRUE, file |-> CHOOSE f \in files : TRUE]

find_metric_file(exp_dir, m) ==
  LET files == GlobFiles(exp_dir, m)
  IN IF Cardinality(files) = 0 THEN [ok |-> FALSE, error |-> "FileNotFoundError"]
     ELSE IF Cardinality(files) > 1 THEN [ok |-> FALSE, error |-> "ValueError"]
     ELSE [ok |-> TRUE, file |-> CHOOSE f \in files : TRUE]

(***************************************************************************)
(* Tables (pandas DataFrame): [cols |-> sequence of column names,          *)
(* rows |-> sequence of rows], a row a function on the columns.            *)
(***************************************************************************)
NaN == 0 - 1

\* load_metric_data: df[essential_cols], 'value' renamed to the metric name
EssentialCols(m) ==
  IF m \in Range(PER_POD_METRICS) THEN <<"timestamp", "value", "pod">>
  ELSE <<"timestamp", "value">>

RenameValue(c, m) == IF c = "value" THEN m ELSE c

\* a loader that asks every source for the pod column
LoadRequiringPod(csv_file, m) ==
  IF csv_file.cols = {}
  THEN [ok |-> FALSE, error |-> "EmptyDataError"]
  ELSE IF ~({"timestamp", "value", "pod"} \subseteq csv_file.cols)
  THEN [ok |-> FALSE, error |-> "KeyError"]
  ELSE [ok |-> TRUE,
        df |-> [cols |-> <<"timestamp", m, "pod">>,
                rows |-> [i \in 1..Len(csv_file.rows) |->
                           [c \in {"timestamp", m, "pod"} |->
                              IF c = m THEN csv_file.rows[i]["value"]
                              ELSE csv_file.rows[i][c]]]]]

\* pd.read_csv of a file without a header line raises EmptyDataError;
\* df[essential_cols] raises KeyError for a column the header does not name
load_metric_data(csv_file, m) ==
  IF csv_file.cols = {}
  THEN [ok |-> FALSE, error |-> "EmptyDataError"]
  ELSE IF ~(Range(EssentialCols(m)) \subseteq csv_file.cols)
  THEN [ok |-> FALSE, error |-> "KeyError"]
  ELSE LET cols == [i \in 1..Len(EssentialCols(m)) |->
                      RenameValue(EssentialCols(m)[i], m)]
       IN [ok |-> TRUE,
           df |-> [cols |-> cols,
                   rows |-> [i \in 1..Len(csv_file.rows) |->
                              [c \in Range(cols) |->
                                 IF c = m THEN csv_file.rows[i]["value"]
                                 ELSE csv_file.rows[i][c]]]]]

(***************************************************************************)
(* pandas merge and sort_values                                            *)
(***************************************************************************)
KeyOf(row, on) == [i \in 1..Len(on) |-> row[on[i]]]

\* lexicographic order of two keys of the same length
KeyLess(a, b) ==
  \E i \in 1..Len(a) :
    /\ a[i] < b[i]
    /\ \A j \in 1..(i - 1) : a[j] = b[j]

RECURSIVE SortKeys(_)
SortKeys(S) ==
  IF S = {} THEN <<>>
  ELSE LET k == CHOOSE x \in S : \A y \in S \ {x} : KeyLess(x, y)
       IN <<k>> \o SortKeys(S \ {k})

\* the rows of a table with a given key, in table order
RowsWithKey(df, on, k) == SelectSeq(df.rows, LAMBDA r : KeyOf(r, on) = k)

MergedCols(left, right, on) ==
  left.cols \o SelectSeq(right.cols, LAMBDA c : c \notin Range(on))

\* one output row of a merge: lrow and rrow are rows, or <<>> for no match
JoinRow(left, right, on, k, lrow, rrow) ==
  [c \in Range(MergedCols(left, right, on)) |->
     IF c \in Range(on) THEN k[IndexOf(on, c)]
     ELSE IF c \in Range(left.cols) THEN (IF lrow = <<>> THEN NaN ELSE lrow[c])
     ELSE (IF rrow = <<>> THEN NaN ELSE rrow[c])]

\* the output rows of one key: the product of the matching rows, left-major
JoinKey(left, right, on, k) ==
  LET ls == RowsWithKey(left, on, k)
      rs == RowsWithKey(right, on, k)
  IN IF rs = <<>>
     THEN [i \in 1..Len(ls) |-> JoinRow(left, right, on, k, ls[i], <<>>)]
     ELSE IF ls = <<>>
     THEN [j \in 1..Len(rs) |-> JoinRow(left, right, on, k, <<>>, rs[j])]
     ELSE [n \in 1..(Len(ls) * Len(rs)) |->
             JoinRow(left, right, on, k,
                     ls[((n - 1) \div Len(rs)) + 1],
                     rs[((n - 1) % Len(rs)) + 1])]

KeysOf(df, on) == {KeyOf(df.rows[i], on) : i \in 1..Len(df.rows)}

\* a merge with how='left' where the code says how='outer': the keys that
\* only the right table has are lost
OuterMergeKeepingLeft(left, right, on) ==
  LET keys == SortKeys(KeysOf(left, on))
  IN [cols |-> MergedCols(left, right, on),
      rows |-> Flatten([i \in 1..Len(keys) |-> JoinKey(left, right, on, keys[i])])]

\* left.merge(right, on=on, how='outer'): union of the keys, sorted
OuterMerge(left, right, on) ==
  LET keys == SortKeys(KeysOf(left, on) \cup KeysOf(right, on))
  IN [cols |-> MergedCols(left, right, on),
      rows |-> Flatten([i \in 1..Len(keys) |-> JoinKey(left, right, on, keys[i])])]

\* a join that pastes the right table beside the left one row by row
\* (pd.concat(axis=1)) instead of matching the key
LeftMergeByPosition(left, right, on) ==
  [cols |-> MergedCols(left, right, on),
   rows |-> [i \in 1..Len(left.rows) |->
              JoinRow(left, right, on, KeyOf(left.rows[i], on), left.rows[i],
                      IF i <= Len(right.rows) THEN right.rows[i] ELSE <<>>)]]

\* left.merge(right, on=on, how='left'): the left rows, in left order
LeftMerge(left, right, on) ==
  [cols |-> MergedCols(left, right, on),
   rows |-> Flatten([i \in 1..Len(left.rows) |->
              LET k == KeyOf(left.rows[i], on)
                  rs == RowsWithKey(right, on, k)
              IN IF rs = <<>>
                 THEN <<JoinRow(left, right, on, k, left.rows[i], <<>>)>>
                 ELSE [j \in 1..Len(rs) |->
                         JoinRow(left, right, on, k, left.rows[i], rs[j])]])]

\* the positions of rows in ascending key order, ties in table order
RECURSIVE SortIndices(_, _, _)
SortIndices(rows, on, S) ==
  IF S = {} THEN <<>>
  ELSE LET i == CHOOSE x \in S : \A y \in S \ {x} :
                  \/ KeyLess(KeyOf(rows[x], on), KeyOf(rows[y], on))
                  \/ (KeyOf(rows[x], on) = KeyOf(rows[y], on) /\ x < y)
       IN <<i>> \o SortIndices(rows, on, S \ {i})

\* a sort with ascending=False
SortValuesDescending(df, on) ==
  LET order == SortIndices(df.rows, on, 1..Len(df.rows))
  IN [cols |-> df.cols,
      rows |-> [i \in 1..Len(order) |-> df.rows[order[Len(order) + 1 - i]]]]

\* df.sort_values(on).reset_index(drop=True) with a stable sort
SortValues(df, on) ==
  LET order == SortIndices(df.rows, on, 1..Len(df.rows))
  IN [cols |-> df.cols, rows |-> [i \in 1..Len(order) |-> df.rows[order[i]]]]

(***************************************************************************)
(* merge_experiment_data                                                   *)
(***************************************************************************)
\* a loader that goes on with an empty series when a source is not found
LoadOneSkipMissing(exp_dir, m) ==
  LET found == find_metric_file(exp_dir, m)
  IN IF ~found.ok
     THEN [ok |-> TRUE,
           df |-> [cols |-> [i \in 1..Len(EssentialCols(m)) |->
                              RenameValue(EssentialCols(m)[i], m)],
                   rows |-> <<>>]]
     ELSE load_metric_data(found.file, m)

\* find_metric_file then load_metric_data of one metric
LoadOne(exp_dir, m) ==
  LET found == find_metric_file(exp_dir, m)
  IN IF ~found.ok THEN [ok |-> FALSE, error |-> found.error, metric |-> m]
     ELSE LET loaded == load_metric_data(found.file, m)
          IN IF ~loaded.ok
             THEN [ok |-> FALSE, error |-> loaded.error, metric |-> m]
             ELSE loaded

\* merged = dfs[0]; for df in dfs[1:]: merged = merged.merge(df, on, 'outer')
RECURSIVE MergeAll(_, _)
MergeAll(dfs, on) ==
  IF Len(dfs) = 1 THEN dfs[1]
  ELSE OuterMerge(MergeAll(SubSeq(dfs, 1, Len(dfs) - 1), on), dfs[Len(dfs)], on)

\* the metrics in the order merge_experiment_data loads them
LoadOrder == PER_POD_METRICS \o SYSTEM_METRICS

PerPodMerged(loads) ==
  MergeAll([i \in 1..Len(PER_POD_METRICS) |-> loads[i].df], <<"timestamp", "pod">>)

SystemMerged(loads) ==
  MergeAll([i \in 1..Len(SYSTEM_METRICS) |->
              loads[Len(PER_POD_METRICS) + i].df], <<"timestamp">>)

LoadAll(exp_dir) == [i \in 1..Len(LoadOrder) |-> LoadOne(exp_dir, LoadOrder[i])]

merge_experiment_data(exp_dir) ==
  LET loads == LoadAll(exp_dir)
      failed == {i \in 1..Len(LoadOrder) : ~loads[i].ok}
  IN IF failed # {}
     THEN loads[CHOOSE i \in failed : \A j \in failed : i <= j]
     ELSE [ok |-> TRUE,
           df |-> SortValues(
                    LeftMerge(PerPodMerged(loads), SystemMerged(loads), <<"timestamp">>),
                    <<"timestamp", "pod">>)]

(***************************************************************************)
(* extract_pod_traces                                                      *)
(***************************************************************************)
\* the pod column as it is, without .unique()
PodColumn(rows) == [i \in 1..Len(rows) |-> rows[i]["pod"]]

\* merged_df['pod'].unique(): the pod ids in order of first appearance
RECURSIVE UniquePods(_)
UniquePods(rows) ==
  IF rows = <<>> THEN <<>>
  ELSE LET front == UniquePods(SubSeq(rows, 1, Len(rows) - 1))
           p == rows[Len(rows)]["pod"]
       IN IF p \in Range(front) THEN front ELSE Append(front, p)

IndexPermutations(n) ==
  {f \in [1..n -> 1..n] : \A i, j \in 1..n : f[i] = f[j] => i = j}

\* a sort that keeps one row per timestamp (drop_duplicates('timestamp'))
SortByTimestampDropDuplicates(rows) ==
  LET order == SortIndices(rows, <<"timestamp">>, 1..Len(rows))
      sorted == [i \in 1..Len(order) |-> rows[order[i]]]
      kept == {i \in 1..Len(sorted) :
                 \A j \in 1..(i - 1) : sorted[j]["timestamp"] # sorted[i]["timestamp"]}
  IN {[n \in 1..Cardinality(kept) |->
         sorted[CHOOSE i \in kept : Cardinality({j \in kept : j < i}) = n - 1]]}

\* pod_data.sort_values('timestamp'): a single-column sort is numpy's
\* quicksort, which is not stable, so rows with equal timestamps may come
\* out in any order.  The set of the possible results.
SortByTimestamp(rows) ==
  LET order == SortIndices(rows, <<"timestamp">>, 1..Len(rows))
      sorted == [i \in 1..Len(order) |-> rows[order[i]]]
  IN IF \A i, j \in 1..Len(rows) :
          rows[i]["timestamp"] = rows[j]["timestamp"] => i = j
     THEN {sorted}
     ELSE {[i \in 1..Len(sorted) |-> sorted[f[i]]] :
             f \in {g \in IndexPermutations(Len(sorted)) :
                      \A i \in 1..Len(sorted) :
                        sorted[g[i]]["timestamp"] = sorted[i]["timestamp"]}}

\* np.vstack: one row per metric instead of one column per metric
RowStack(pod_data) ==
  [j \in 1..Len(METRIC_ORDER) |->
     [i \in 1..Len(pod_data) |-> pod_data[i][METRIC_ORDER[j]]]]

\* the columns in the order the merge loaded them, not in METRIC_ORDER
ColumnStackLoadOrder(pod_data) ==
  [i \in 1..Len(pod_data) |->
     [j \in 1..Len(LoadOrder) |-> pod_data[i][LoadOrder[j]]]]

\* np.column_stack of the metric columns in METRIC_ORDER
ColumnStack(pod_data) ==
  [i \in 1..Len(pod_data) |->
     [j \in 1..Len(METRIC_ORDER) |-> pod_data[i][METRIC_ORDER[j]]]]

\* metadata that records the shape of the transposed array
PodTraceShapeSwapped(pod_data, info, pod_id, exp_dir_name) ==
  LET trace == ColumnStack(pod_data)
  IN [trace |-> trace,
      meta |-> [workload |-> info.workload,
                replica_count |-> info.replica_count,
                pod_id |-> pod_id,
                experiment_dir |-> exp_dir_name,
                n_timesteps |-> Len(METRIC_ORDER),
                n_metrics |-> Len(trace)]]

PodTrace(pod_data, info, pod_id, exp_dir_name) ==
  LET trace == ColumnStack(pod_data)
  IN [trace |-> trace,
      meta |-> [workload |-> info.workload,
                replica_count |-> info.replica_count,
                pod_id |-> pod_id,
                experiment_dir |-> exp_dir_name,
                n_timesteps |-> Len(trace),
                n_metrics |-> Len(METRIC_ORDER)]]

\* the possible lists of (trace, metadata) for the pods `pods`, in order
RECURSIVE PodTraceLists(_, _, _, _)
PodTraceLists(df, info, pods, exp_dir_name) ==
  IF pods = <<>> THEN {<<>>}
  ELSE LET pod_id == pods[Len(pods)]
           pod_rows == SelectSeq(df.rows, LAMBDA r : r["pod"] = pod_id)
       IN {Append(front, PodTrace(pod_data, info, pod_id, exp_dir_name)) :
             front \in PodTraceLists(df, info, SubSeq(pods, 1, Len(pods) - 1),
                                     exp_dir_name),
             pod_data \in SortByTimestamp(pod_rows)}

\* the metric at which `for metric in METRIC_ORDER` raises: the first one
\* that is not a column of the table
FirstAbsentMetric(df) ==
  METRIC_ORDER[CHOOSE j \in 1..Len(METRIC_ORDER) :
                 /\ METRIC_ORDER[j] \notin Range(df.cols)
                 /\ \A i \in 1..(j - 1) : METRIC_ORDER[i] \in Range(df.cols)]

\* an extraction that returns no trace where extract_pod_traces raises
ExtractSwallowingErrors(df, exp_dir_name) ==
  LET info == extract_experiment_info(exp_dir_name)
  IN IF ~info.ok \/ "pod" \notin Range(df.cols)
          \/ (df.rows # <<>> /\ ~(Range(METRIC_ORDER) \subseteq Range(df.cols)))
     THEN {[ok |-> TRUE, pod_traces |-> <<>>]}
     ELSE {[ok |-> TRUE, pod_traces |-> l] :
             l \in PodTraceLists(df, info, UniquePods(df.rows), exp_dir_name)}

\* the possible outcomes of extract_pod_traces(merged_df, exp_dir_name)
extract_pod_traces(df, exp_dir_name) ==
  LET info == extract_experiment_info(exp_dir_name)
  IN IF ~info.ok THEN {[ok |-> FALSE, error |-> info.error]}
     ELSE IF "pod" \notin Range(df.cols) THEN {[ok |-> FALSE, error |-> "KeyError"]}
     ELSE IF df.rows # <<>> /\ ~(Range(METRIC_ORDER) \subseteq Range(df.cols))
     THEN {[ok |-> FALSE, error |-> "ValueError",
            metric |-> FirstAbsentMetric(df), pod |-> UniquePods(df.rows)[1]]}
     ELSE {[ok |-> TRUE, pod_traces |-> l] :
             l \in PodTraceLists(df, info, UniquePods(df.rows), exp_dir_name)}

(***************************************************************************)
(* The inputs: experiment directories as the exporter writes them          *)
(* (tools/run_single_experiment_v1.1.py), each with at most one deviation. *)
(***************************************************************************)
MetricIndex(m) == IndexOf(METRIC_ORDER, m)

\* the value observed for metric m at timestamp t for pod p (0: no pod);
\* k tells a repeated observation of the same key from the first
Obs(m, t, p, k) == MetricIndex(m) * 1000 + t * 100 + p * 10 + k

IsPerPod(m) == m \in Range(PER_POD_METRICS)

\* the rows of a complete series, sorted by timestamp as export_to_csv does
SeriesRows(m, E, T) ==
  IF IsPerPod(m)
  THEN [n \in 1..(T * E) |->
          LET t == ((n - 1) \div E) + 1
              p == ((n - 1) % E) + 1
          IN [timestamp |-> t, pod |-> p, value |-> Obs(m, t, p, 0)]]
  ELSE [t \in 1..T |-> [timestamp |-> t, value |-> Obs(m, t, 0, 0)]]

SeriesCols(m) ==
  IF IsPerPod(m) THEN {"timestamp", "value", "pod"} ELSE {"timestamp", "value"}

\* <workload>_r<replicas>_<metric>_<run timestamp>.csv
FileName(gid, m) == gid \o <<"_">> \o MetricTokens(m) \o <<"_", "ts", ".csv">>

SeriesFile(gid, m, rows) ==
  [name |-> FileName(gid, m), cols |-> SeriesCols(m), rows |-> rows]

Reverse(s) == [i \in 1..Len(s) |-> s[Len(s) + 1 - i]]

RemoveAt(s, i) == SubSeq(s, 1, i - 1) \o SubSeq(s, i + 1, Len(s))

\* the row of s at position i once more, right after it, with another value
RepeatAt(s, i) ==
  SubSeq(s, 1, i) \o <<[s[i] EXCEPT !["value"] = s[i]["value"] + 1]>>
  \o SubSeq(s, i + 1, Len(s))

\* one more timestamp, T + 1, observed by this series alone (for pod 1)
LateRow(m, T) ==
  IF IsPerPod(m)
  THEN [timestamp |-> T + 1, pod |-> 1, value |-> Obs(m, T + 1, 1, 0)]
  ELSE [timestamp |-> T + 1, value |-> Obs(m, T + 1, 0, 0)]

Deviations(E, T) ==
  {[kind |-> "none"]}
  \cup {[kind |-> k, metric |-> m] :
          k \in {"missing", "second", "hidden", "late", "reversed"},
          m \in Range(METRIC_ORDER)}
  \cup {[kind |-> k, metric |-> m, at |-> i] :
          k \in {"gap", "repeat"},
          m \in Range(METRIC_ORDER),
          i \in 1..(T * E)}

DeviationFits(d, E, T) ==
  d.kind \in {"gap", "repeat"} => d.at <= Len(SeriesRows(d.metric, E, T))

\* the files of a directory: one per catalog metric, changed by deviation d
DirFiles(gid, E, T, d) ==
  LET rowsOf(m) ==
        IF d.kind = "none" \/ d.metric # m THEN SeriesRows(m, E, T)
        ELSE IF d.kind = "gap" THEN RemoveAt(SeriesRows(m, E, T), d.at)
        ELSE IF d.kind = "repeat" THEN RepeatAt(SeriesRows(m, E, T), d.at)
        ELSE IF d.kind = "late" THEN Append(SeriesRows(m, E, T), LateRow(m, T))
        ELSE IF d.kind = "reversed" THEN Reverse(SeriesRows(m, E, T))
        ELSE SeriesRows(m, E, T)
      base == {SeriesFile(gid, m, rowsOf(m)) :
                 m \in {x \in Range(METRIC_ORDER) :
                          ~(d.kind = "missing" /\ d.metric = x)}}
      more ==
        IF d.kind = "second"
        THEN {[name |-> gid \o <<"_">> \o MetricTokens(d.metric)
                          \o <<"_", "ts", "_", "copy", ".csv">>,
               cols |-> SeriesCols(d.metric),
               rows |-> SeriesRows(d.metric, E, T)]}
        ELSE IF d.kind = "hidden"
        THEN {[name |-> <<".">> \o FileName(gid, d.metric),
               cols |-> SeriesCols(d.metric),
               rows |-> SeriesRows(d.metric, E, T)],
              [name |-> gid \o <<"_">> \o MetricTokens(d.metric)
                          \o <<"_", "ts", ".txt">>,
               cols |-> SeriesCols(d.metric),
               rows |-> SeriesRows(d.metric, E, T)]}
        ELSE {}
  IN base \cup more

Directory(gid, E, T, d) == [name |-> gid, files |-> DirFiles(gid, E, T, d)]

\* the directory under study: the conventional name with any deviation of
\* its files, or another name with complete files
Resnet_r2 == <<"resnet50", "_", "r", "2">>

OtherNames ==
  { <<"resnet50">>,
    <<"resnet50", "_", "r", "0">>,
    <<"resnet50", "_", "r", "1", "0">>,
    <<"resnet50", "_", "r", "2", "_", "old">> }

StudiedDirs ==
  UNION {{Directory(Resnet_r2, E, MaxT, d) :
            d \in {x \in Deviations(MaxPods, MaxT) : DeviationFits(x, E, MaxT)}} :
         E \in 1..MaxPods}
  \cup {Directory(gid, E, MaxT, [kind |-> "none"]) :
          gid \in OtherNames, E \in 1..MaxPods}

\* complete directories of other workloads that may stand beside it
CompanionDirs ==
  { Directory(<<"distilbert", "_", "r", "1">>, 1, MaxT, [kind |-> "none"]),
    Directory(<<"whisper", "_", "r", "1">>, 1, MaxT, [kind |-> "none"]) }

FileSystems ==
  {{d} \cup c : d \in StudiedDirs, c \in {{}} \cup {{x} : x \in CompanionDirs}}

(***************************************************************************)
(* load_phase1_data                                                        *)
(***************************************************************************)
\* the order of the characters the tokens of a directory name stand for
TokenOrder ==
  <<".", "0", "1", "2", "3", "4", "5", "6", "7", "8", "9", "_",
    "distilbert", "old", "r", "resnet50", "whisper">>

TokenRank(tok) == IndexOf(TokenOrder, tok)

\* string order of two names
NameLess(a, b) ==
  \/ (Len(a) < Len(b) /\ SubSeq(b, 1, Len(a)) = a)
  \/ \E i \in 1..Len(a) :
       /\ i <= Len(b)
       /\ TokenRank(a[i]) < TokenRank(b[i])
       /\ \A j \in 1..(i - 1) : a[j] = b[j]

\* the directories in descending order of their names
RECURSIVE SortedNamesDescending(_)
SortedNamesDescending(S) ==
  IF S = {} THEN <<>>
  ELSE LET n == CHOOSE x \in S : \A y \in S \ {x} : NameLess(y, x)
       IN <<n>> \o SortedNamesDescending(S \ {n})

\* sorted([d for d in data_path.iterdir() if d.is_dir()])
RECURSIVE SortedNames(_)
SortedNames(S) ==
  IF S = {} THEN <<>>
  ELSE LET n == CHOOSE x \in S : \A y \in S \ {x} : NameLess(x, y)
       IN <<n>> \o SortedNames(S \ {n})

DirNamed(n) == CHOOSE d \in fs : d.name = n

NoTable == [cols |-> <<>>, rows |-> <<>>]

NoCall == [op |-> "none"]

NoRet == [ok |-> FALSE, error |-> "none"]

\* python None
None == [none |-> TRUE]

Init ==
  /\ fs \in FileSystems
  /\ pc = "idle"
  /\ exp_dirs = <<>>
  /\ idx = 0
  /\ merged_df = NoTable
  /\ all_pod_traces = <<>>
  /\ reported = <<>>
  /\ call = NoCall
  /\ ret = NoRet
  /\ normalizer = None

\* where the loop `for exp_dir in exp_dirs` goes after position i
AfterDir(i) == IF i < Len(exp_dirs) THEN "merge" ELSE "done"

\* load_phase1_data up to the loop
LoadPhase1Data ==
  /\ pc = "idle"
  /\ call = NoCall
  /\ call' = [op |-> "load_phase1_data"]
  /\ exp_dirs' = SortedNames({d.name : d \in fs})
  /\ idx' = 1
  /\ pc' = IF fs = {} THEN "done" ELSE "merge"
  /\ UNCHANGED <<fs, merged_df, all_pod_traces, reported, ret, normalizer>>

\* merged_df = merge_experiment_data(exp_dir), or the except branch
MergeExperimentData ==
  /\ pc = "merge"
  /\ LET res == merge_experiment_data(DirNamed(exp_dirs[idx]))
     IN IF res.ok
        THEN /\ merged_df' = res.df
             /\ pc' = "extract"
             /\ UNCHANGED <<idx, reported>>
        ELSE /\ reported' = Append(reported,
                    [dir |-> exp_dirs[idx], error |-> res.error])
             /\ idx' = idx + 1
             /\ pc' = AfterDir(idx)
             /\ UNCHANGED merged_df
  /\ UNCHANGED <<fs, exp_dirs, all_pod_traces, call, ret, normalizer>>

\* pod_traces = extract_pod_traces(merged_df, exp_dir.name);
\* all_pod_traces.extend(pod_traces), or the except branch
ExtractPodTraces ==
  /\ pc = "extract"
  /\ \E res \in extract_pod_traces(merged_df, exp_dirs[idx]) :
       IF res.ok
       THEN /\ all_pod_traces' = all_pod_traces \o res.pod_traces
            /\ UNCHANGED reported
       ELSE /\ reported' = Append(reported,
                   [dir |-> exp_dirs[idx], error |-> res.error])
            /\ UNCHANGED all_pod_traces
  /\ idx' = idx + 1
  /\ pc' = AfterDir(idx)
  /\ UNCHANGED <<fs, exp_dirs, merged_df, call, ret, normalizer>>

\* return all_pod_traces
ReturnTraces ==
  /\ pc = "done"
  /\ call = [op |-> "load_phase1_data"]
  /\ ret = NoRet
  /\ ret' = [ok |-> TRUE, pod_traces |-> all_pod_traces]
  /\ pc' = "returned"
  /\ UNCHANGED <<fs, exp_dirs, idx, merged_df, all_pod_traces, reported, call, normalizer>>

Next ==
  \/ LoadPhase1Data
  \/ MergeExperimentData
  \/ ExtractPodTraces
  \/ ReturnTraces

Spec == Init /\ [][Next]_vars

(***************************************************************************)
(* extract_experiment_info called on its own, on any name of up to         *)
(* MaxNameLen characters: "w" and "x" are letters.                         *)
(***************************************************************************)
NameAlphabet == {"w", "x", "_", "r", "0", "2"}

Names == UNION {[1..n -> NameAlphabet] : n \in 0..MaxNameLen}

InitInfo ==
  /\ fs = {}
  /\ pc = "idle"
  /\ exp_dirs = <<>>
  /\ idx = 0
  /\ merged_df = NoTable
  /\ all_pod_traces = <<>>
  /\ reported = <<>>
  /\ call \in {[op |-> "extract_experiment_info", exp_dir_name |-> n] : n \in Names}
  /\ ret = NoRet
  /\ normalizer = None

ExtractExperimentInfo ==
  /\ pc = "idle"
  /\ call.op = "extract_experiment_info"
  /\ ret' = extract_experiment_info(call.exp_dir_name)
  /\ pc' = "returned"
  /\ UNCHANGED <<fs, exp_dirs, idx, merged_df, all_pod_traces, reported, call, normalizer>>

SpecInfo == InitInfo /\ [][ExtractExperimentInfo]_vars

(***************************************************************************)
(* find_metric_file called on its own, for every catalog metric, on        *)
(* directories whose file names deviate from the convention.               *)
(***************************************************************************)
ConventionalNames ==
  { Resnet_r2, <<"whisper", "_", "r", "1">>, <<"distilbert", "_", "r", "1", "0">> }

NameDeviations ==
  {[kind |-> "none"]}
  \cup {[kind |-> k, metric |-> m] :
          k \in {"missing", "second", "hidden"}, m \in Range(METRIC_ORDER)}

LocatorDirs ==
  {Directory(gid, 1, 1, d) : gid \in ConventionalNames, d \in NameDeviations}

InitFind ==
  /\ fs \in {{d} : d \in LocatorDirs}
  /\ pc = "idle"
  /\ exp_dirs = <<>>
  /\ idx = 0
  /\ merged_df = NoTable
  /\ all_pod_traces = <<>>
  /\ reported = <<>>
  /\ call \in {[op |-> "find_metric_file", metric_name |-> m] :
                  m \in Range(METRIC_ORDER)}
  /\ ret = NoRet
  /\ normalizer = None

FindMetricFile ==
  /\ pc = "idle"
  /\ call.op = "find_metric_file"
  /\ ret' = find_metric_file(CHOOSE d \in fs : TRUE, call.metric_name)
  /\ pc' = "returned"
  /\ UNCHANGED <<fs, exp_dirs, idx, merged_df, all_pod_traces, reported, call, normalizer>>

SpecFind == InitFind /\ [][FindMetricFile]_vars

(***************************************************************************)
(* Floating-point numbers of scripts/phase2/absolute_normalizer.py.        *)
(* A natural number is the sequence of its digits in base Base, lowest     *)
(* first, without leading zero digits.  A finite float is sign * m * 2^e   *)
(* with m a natural number that is odd or zero; float64 and float32 keep   *)
(* 53 and 24 bits of m, rounding to nearest, ties to even.  The exponent   *)
(* range of the formats is not modelled.                                   *)
(***************************************************************************)
BaseBits == 12

Base == 2 ^ BaseBits

RECURSIVE Pow2(_)
Pow2(n) == IF n = 0 THEN 1 ELSE 2 * Pow2(n - 1)

\* the element of a set of one element: TheOne({e(v) : v \in {x}}) is e(x)
\* with x computed once
TheOne(S) == CHOOSE v \in S : TRUE

RECURSIVE BigTrim(_)
BigTrim(a) ==
  IF a # <<>> /\ a[Len(a)] = 0 THEN BigTrim(SubSeq(a, 1, Len(a) - 1)) ELSE a

RECURSIVE BigFromInt(_)
BigFromInt(n) == IF n = 0 THEN <<>> ELSE <<n % Base>> \o BigFromInt(n \div Base)

Digit(a, i) == IF i >= 1 /\ i <= Len(a) THEN a[i] ELSE 0

RECURSIVE BigAddCarry(_, _, _)
BigAddCarry(a, b, c) ==
  IF a = <<>> /\ b = <<>> THEN (IF c = 0 THEN <<>> ELSE <<c>>)
  ELSE TheOne({<<s % Base>> \o BigAddCarry(IF a = <<>> THEN a ELSE Tail(a),
                                           IF b = <<>> THEN b ELSE Tail(b),
                                           s \div Base) :
                 s \in {Digit(a, 1) + Digit(b, 1) + c}})

BigAdd(a, b) == BigAddCarry(a, b, 0)

\* a - b - c for a >= b + c
RECURSIVE BigSubBorrow(_, _, _)
BigSubBorrow(a, b, c) ==
  IF a = <<>> THEN <<>>
  ELSE TheOne({<<d % Base>> \o BigSubBorrow(Tail(a), IF b = <<>> THEN b ELSE Tail(b),
                                            IF d < 0 THEN 1 ELSE 0) :
                 d \in {Head(a) - Digit(b, 1) - c}})

BigSub(a, b) == BigTrim(BigSubBorrow(a, b, 0))

\* -1, 0, 1 as a < b, a = b, a > b
RECURSIVE BigCmp(_, _)
BigCmp(a, b) ==
  IF Len(a) # Len(b) THEN (IF Len(a) < Len(b) THEN 0 - 1 ELSE 1)
  ELSE IF a = <<>> THEN 0
  ELSE IF a[Len(a)] # b[Len(b)] THEN (IF a[Len(a)] < b[Len(b)] THEN 0 - 1 ELSE 1)
  ELSE BigCmp(SubSeq(a, 1, Len(a) - 1), SubSeq(b, 1, Len(b) - 1))

\* a * k + c for a digit k
RECURSIVE BigMulDigit(_, _, _)
BigMulDigit(a, k, c) ==
  IF a = <<>> THEN (IF c = 0 THEN <<>> ELSE <<c>>)
  ELSE TheOne({<<s % Base>> \o BigMulDigit(Tail(a), k, s \div Base) :
                 s \in {Head(a) * k + c}})

RECURSIVE BigMul(_, _)
BigMul(a, b) ==
  IF a = <<>> \/ b = <<>> THEN <<>>
  ELSE BigAdd(BigMulDigit(a, Head(b), 0), BigTrim(<<0>> \o BigMul(a, Tail(b))))

\* a * 2^n
BigShl(a, n) ==
  IF a = <<>> THEN <<>>
  ELSE [i \in 1..(n \div BaseBits) |-> 0]
         \o BigTrim(BigMulDigit(a, Pow2(n % BaseBits), 0))

\* a \div k for a digit k > 0, from the highest digit down with remainder r
RECURSIVE BigDivDigit(_, _, _)
BigDivDigit(a, k, r) ==
  IF a = <<>> THEN <<>>
  ELSE TheOne({BigDivDigit(SubSeq(a, 1, Len(a) - 1), k, x % k) \o <<x \div k>> :
                 x \in {r * Base + a[Len(a)]}})

\* a \div 2^n
BigShr(a, n) ==
  IF n \div BaseBits >= Len(a) THEN <<>>
  ELSE BigTrim(BigDivDigit(SubSeq(a, n \div BaseBits + 1, Len(a)),
                           Pow2(n % BaseBits), 0))

RECURSIVE IntBitLen(_)
IntBitLen(n) == IF n = 0 THEN 0 ELSE 1 + IntBitLen(n \div 2)

BigBitLen(a) ==
  IF a = <<>> THEN 0 ELSE BaseBits * (Len(a) - 1) + IntBitLen(a[Len(a)])

BigIsOdd(a) == a # <<>> /\ a[1] % 2 = 1

RECURSIVE IntTwos(_)
IntTwos(n) == IF n % 2 = 1 THEN 0 ELSE 1 + IntTwos(n \div 2)

\* the number of times 2 divides a > 0
RECURSIVE BigTwos(_)
BigTwos(a) == IF Head(a) = 0 THEN BaseBits + BigTwos(Tail(a)) ELSE IntTwos(Head(a))

\* the digit d with d * b <= r < (d + 1) * b, for r < Base * b and b with its
\* highest digit at least Base / 2: at most 2 below the quotient of the two
\* highest digits of r by the highest digit of b
QuotientDigit(r, b) ==
  TheOne({CHOOSE d \in {c \in (top - 2)..top : c >= 0} :
            TheOne({BigCmp(low, r) <= 0 /\ BigCmp(BigAdd(low, b), r) > 0 :
                      low \in {BigTrim(BigMulDigit(b, d, 0))}}) :
            top \in {TheOne({IF est > Base - 1 THEN Base - 1 ELSE est :
                               est \in {(Digit(r, Len(b) + 1) * Base + Digit(r, Len(b)))
                                          \div b[Len(b)]}})}})

\* one step of long division: the remainder so far, then the next digit
DivStep(high, digit, b) ==
  TheOne({TheOne({[q |-> BigTrim(<<d>> \o high.q),
                   r |-> BigSub(r, BigTrim(BigMulDigit(b, d, 0)))] :
                    d \in {QuotientDigit(r, b)}}) :
            r \in {BigTrim(<<digit>> \o high.r)}})

\* long division of a by b, highest digit first
RECURSIVE LongDivision(_, _)
LongDivision(a, b) ==
  IF a = <<>> THEN [q |-> <<>>, r |-> <<>>]
  ELSE TheOne({DivStep(high, Head(a), b) : high \in {LongDivision(Tail(a), b)}})

\* quotient and remainder of a by b > 0: short division by a divisor of one
\* digit, long division by a longer one
BigDivMod(a, b) ==
  IF Len(b) = 1
  THEN TheOne({[q |-> q, r |-> BigSub(a, BigTrim(BigMulDigit(q, b[1], 0)))] :
                 q \in {BigTrim(BigDivDigit(a, b[1], 0))}})
  ELSE TheOne({TheOne({[q |-> d.q, r |-> BigShr(d.r, sh)] :
                         d \in {LongDivision(BigShl(a, sh), BigShl(b, sh))}}) :
                 sh \in {BaseBits - IntBitLen(b[Len(b)])}})

\* sign * m * 2^e in the form with m odd, or zero
MkFloat(s, m, e) ==
  IF m = <<>> THEN [k |-> "fin", s |-> 1, m |-> <<>>, e |-> 0]
  ELSE TheOne({[k |-> "fin", s |-> s, m |-> BigShr(m, t), e |-> e + t] :
                 t \in {BigTwos(m)}})

FNaN == [k |-> "nan", s |-> 1, m |-> <<>>, e |-> 0]

FInf(s) == [k |-> "inf", s |-> s, m |-> <<>>, e |-> 0]

FZero == [k |-> "fin", s |-> 1, m |-> <<>>, e |-> 0]

FromInt(n) == MkFloat(IF n < 0 THEN 0 - 1 ELSE 1, BigFromInt(IF n < 0 THEN 0 - n ELSE n), 0)

\* m \div 2^sh rounded to nearest, ties to even, for sh > 0
RoundShift(m, sh) ==
  TheOne({TheOne({IF c > 0 \/ (c = 0 /\ BigIsOdd(q)) THEN BigAdd(q, <<1>>) ELSE q :
                    c \in {BigCmp(BigSub(m, BigShl(q, sh)), BigShl(<<1>>, sh - 1))}}) :
            q \in {BigShr(m, sh)}})

\* sign * m * 2^e rounded to p bits of mantissa, to nearest, ties to even
RoundTo(p, s, m, e) ==
  TheOne({IF sh <= 0 THEN MkFloat(s, m, e) ELSE MkFloat(s, RoundShift(m, sh), e + sh) :
            sh \in {BigBitLen(m) - p}})

Float64(v) == IF v.k = "fin" THEN RoundTo(53, v.s, v.m, v.e) ELSE v

\* astype(np.float32)
Float32(v) == IF v.k = "fin" THEN RoundTo(24, v.s, v.m, v.e) ELSE v

FNeg(a) == IF a.k = "nan" \/ (a.k = "fin" /\ a.m = <<>>) THEN a ELSE [a EXCEPT !.s = 0 - a.s]

\* s * (ma - mb) * 2^e for natural numbers ma and mb
SignedDifference(s, ma, mb, e) ==
  IF BigCmp(ma, mb) >= 0 THEN MkFloat(s, BigSub(ma, mb), e)
  ELSE MkFloat(0 - s, BigSub(mb, ma), e)

\* a + b without rounding, for finite a and b; zero added leaves the other
ExactAdd(a, b) ==
  IF a.m = <<>> THEN b
  ELSE IF b.m = <<>> THEN a
  ELSE TheOne({TheOne({IF a.s = b.s THEN MkFloat(a.s, BigAdd(ma, mb), e0)
                       ELSE SignedDifference(a.s, ma, mb, e0) :
                         ma \in {BigShl(a.m, a.e - e0)},
                         mb \in {BigShl(b.m, b.e - e0)}}) :
                 e0 \in {IF a.e < b.e THEN a.e ELSE b.e}})

\* float64 a + b
FAdd(a, b) ==
  IF a.k = "nan" \/ b.k = "nan" THEN FNaN
  ELSE IF a.k = "inf" THEN (IF b.k = "inf" /\ b.s # a.s THEN FNaN ELSE a)
  ELSE IF b.k = "inf" THEN b
  ELSE Float64(ExactAdd(a, b))

\* float64 a - b
FSub(a, b) == FAdd(a, FNeg(b))

\* float64 a * b
FMul(a, b) ==
  IF a.k = "nan" \/ b.k = "nan" THEN FNaN
  ELSE IF a.k = "inf" \/ b.k = "inf"
  THEN (IF (a.k = "fin" /\ a.m = <<>>) \/ (b.k = "fin" /\ b.m = <<>>) THEN FNaN
        ELSE FInf(a.s * b.s))
  ELSE RoundTo(53, a.s * b.s, BigMul(a.m, b.m), a.e + b.e)

\* the quotient of ma * 2^sh by mb with one more bit below it, which is 1
\* when the division leaves a remainder
QuotientWithSticky(ma, mb, sh) ==
  TheOne({BigAddCarry(BigMulDigit(d.q, 2, 0), <<>>, IF d.r = <<>> THEN 0 ELSE 1) :
            d \in {BigDivMod(BigShl(ma, sh), mb)}})

\* float64 a / b as numpy divides: x / 0 is an infinity, 0 / 0 is nan
FDiv(a, b) ==
  IF a.k = "nan" \/ b.k = "nan" THEN FNaN
  ELSE IF a.k = "inf" THEN (IF b.k = "inf" THEN FNaN ELSE FInf(a.s * b.s))
  ELSE IF b.k = "inf" THEN FZero
  ELSE IF b.m = <<>> THEN (IF a.m = <<>> THEN FNaN ELSE FInf(a.s))
  ELSE IF a.m = <<>> THEN FZero
  ELSE TheOne({RoundTo(53, a.s * b.s, QuotientWithSticky(a.m, b.m, sh),
                       a.e - b.e - sh - 1) :
                 sh \in {TheOne({IF need > 0 THEN need ELSE 0 :
                                   need \in {55 + BigBitLen(b.m) - BigBitLen(a.m)}})}})

\* a < b; false when either is nan
FLess(a, b) ==
  IF a.k = "nan" \/ b.k = "nan" THEN FALSE
  ELSE IF a.k = "inf" THEN a.s < 0 /\ ~(b.k = "inf" /\ b.s < 0)
  ELSE IF b.k = "inf" THEN b.s > 0
  ELSE TheOne({d.m # <<>> /\ d.s < 0 : d \in {ExactAdd(a, FNeg(b))}})

\* np.clip(v, lo, hi): nan stays nan
Clip(v, lo, hi) ==
  IF v.k = "nan" THEN v ELSE IF FLess(v, lo) THEN lo ELSE IF FLess(hi, v) THEN hi ELSE v

\* the float64 nearest to n / 10^d, as python reads a decimal literal
Decimal(n, d) == FDiv(FromInt(n), FromInt(10 ^ d))

FAbs(a) == IF a.k = "nan" THEN a ELSE [a EXCEPT !.s = 1]

\* the natural number a as an integer, for a < 2^31
RECURSIVE BigToInt(_)
BigToInt(a) == IF a = <<>> THEN 0 ELSE Head(a) + Base * BigToInt(Tail(a))

\* floor of a finite a >= 0, as an integer
FloorInt(a) == BigToInt(IF a.e >= 0 THEN BigShl(a.m, a.e) ELSE BigShr(a.m, 0 - a.e))

(***************************************************************************)
(* scripts/phase2/absolute_normalizer.py.  A trace is a sequence of rows   *)
(* of 15 floats; a range table is a function from metric names to          *)
(* <<min, max>>.                                                           *)
(***************************************************************************)
\* the names of the normalizer in alphabetical order
MetricNamesAlphabetical ==
  << "cpu_psi", "cpu_usage", "gpu_memory", "gpu_power", "gpu_temperature",
     "gpu_utilization", "io_psi", "latency_avg", "latency_p50", "latency_p95",
     "latency_p99", "memory_psi", "memory_usage", "throughput",
     "total_inferences" >>

METRIC_NAMES ==
  << "cpu_psi", "cpu_usage", "gpu_memory", "gpu_power", "gpu_temperature",
     "gpu_utilization", "latency_avg", "latency_p50", "latency_p95",
     "latency_p99", "throughput", "total_inferences", "io_psi", "memory_psi",
     "memory_usage" >>

FOne == FromInt(1)

ABSOLUTE_RANGES ==
  [ cpu_psi |-> <<FZero, FOne>>,
    cpu_usage |-> <<FZero, FromInt(8)>>,
    latency_avg |-> <<FZero, FromInt(5)>>,
    latency_p50 |-> <<FZero, FromInt(5)>>,
    latency_p95 |-> <<FZero, FromInt(8)>>,
    latency_p99 |-> <<FZero, FromInt(10)>>,
    throughput |-> <<FZero, FromInt(500)>>,
    total_inferences |-> <<FZero, FromInt(100000)>>,
    io_psi |-> <<FZero, FOne>>,
    memory_psi |-> <<FZero, FOne>>,
    memory_usage |-> <<FZero, FMul(FromInt(10), FromInt(10 ^ 9))>>,
    gpu_memory |-> <<FZero, FromInt(20000)>>,
    gpu_power |-> <<FZero, FromInt(100)>>,
    gpu_temperature |-> <<FZero, FromInt(100)>>,
    gpu_utilization |-> <<FZero, FromInt(100)>> ]

\* python truth of the argument `ranges`: None and the empty dict are false
Truthy(ranges) == ranges # None /\ DOMAIN ranges # {}

\* AbsoluteNormalizer(ranges): the object, or the KeyError of a missing name
AbsoluteNormalizer(ranges) ==
  LET held == IF Truthy(ranges) THEN ranges ELSE ABSOLUTE_RANGES
  IN IF \E j \in 1..Len(METRIC_NAMES) : METRIC_NAMES[j] \notin DOMAIN held
     THEN [ok |-> FALSE, error |-> "KeyError"]
     ELSE LET mins == [j \in 1..Len(METRIC_NAMES) |-> held[METRIC_NAMES[j]][1]]
              maxs == [j \in 1..Len(METRIC_NAMES) |-> held[METRIC_NAMES[j]][2]]
          IN [ok |-> TRUE,
              normalizer |->
                [ranges |-> held,
                 metric_names |-> METRIC_NAMES,
                 mins |-> mins,
                 maxs |-> maxs,
                 scales |-> [j \in 1..Len(METRIC_NAMES) |-> FSub(maxs[j], mins[j])]]]

\* normalizer.normalize(trace)
normalize(self, trace) ==
  [i \in 1..Len(trace) |->
     [j \in 1..Len(trace[i]) |->
        Float32(Clip(FDiv(FSub(trace[i][j], self.mins[j]), self.scales[j]),
                     FZero, FOne))]]

\* normalizer.denormalize(normalized_trace)
denormalize(self, normalized_trace) ==
  [i \in 1..Len(normalized_trace) |->
     [j \in 1..Len(normalized_trace[i]) |->
        Float32(FAdd(FMul(normalized_trace[i][j], self.scales[j]), self.mins[j]))]]

\* normalizer.save(filepath): the file that joblib.dump writes
save(self, filepath) ==
  [name |-> filepath,
   data |-> [ranges |-> self.ranges,
             metric_names |-> self.metric_names,
             mins |-> self.mins,
             maxs |-> self.maxs,
             scales |-> self.scales]]

\* a load that builds the normalizer without the saved ranges
LoadWithoutRanges(file) == AbsoluteNormalizer(None)

\* AbsoluteNormalizer.load(filepath), reading the file `file`
load(file) == AbsoluteNormalizer(file.data.ranges)

IsNaN(v) == v.k = "nan"

\* values.min()
ArrayMin(values) ==
  IF \E i \in 1..Len(values) : IsNaN(values[i]) THEN FNaN
  ELSE values[CHOOSE i \in 1..Len(values) :
                \A n \in 1..Len(values) : ~FLess(values[n], values[i])]

\* python max(0.0, v): v when it is greater than 0.0, else 0.0
PyMax0(v) == IF FLess(FZero, v) THEN v ELSE FZero

\* values without NaN in ascending order
RECURSIVE SortFloats(_)
SortFloats(values) ==
  IF values = <<>> THEN <<>>
  ELSE LET i == CHOOSE n \in 1..Len(values) :
                  \A o \in 1..Len(values) : ~FLess(values[o], values[n])
       IN <<values[i]>>
            \o SortFloats(SubSeq(values, 1, i - 1) \o SubSeq(values, i + 1, Len(values)))

\* numpy _lerp(a, b, t)
Lerp(a, b, t) ==
  LET diff_b_a == FSub(b, a)
  IN IF FLess(t, Decimal(5, 1)) THEN FAdd(a, FMul(diff_b_a, t))
     ELSE FSub(b, FMul(diff_b_a, FSub(FOne, t)))

\* np.percentile(values, percentile) with linear interpolation: the virtual
\* index of the method 'linear' is (n - 1) * q
Percentile(values, percentile) ==
  IF \E i \in 1..Len(values) : IsNaN(values[i]) THEN FNaN
  ELSE LET arr == SortFloats(values)
           n == Len(arr)
           q == FDiv(percentile, FromInt(100))
           virtual_index == FMul(FromInt(n - 1), q)
       IN IF ~FLess(virtual_index, FromInt(n - 1)) THEN arr[n]
          ELSE IF FLess(virtual_index, FZero) THEN arr[1]
          ELSE LET previous == FloorInt(virtual_index)
               IN Lerp(arr[previous + 1], arr[previous + 2],
                       FSub(virtual_index, FromInt(previous)))

\* the range that create_normalizer_from_data derives from the values of a metric
DataRange(values, percentile, min_range_factor) ==
  LET min_val == PyMax0(ArrayMin(values))
      max_val == FMul(Percentile(values, percentile), min_range_factor)
  IN IF FLess(FSub(max_val, min_val), Decimal(1, 6))
     THEN <<min_val, FAdd(min_val, FOne)>>
     ELSE <<min_val, max_val>>

\* the outcomes of create_normalizer_from_data(pod_traces, percentile,
\* min_range_factor).  np.array of no trace has no third axis (IndexError);
\* of traces of different lengths it is an array of objects without a third
\* axis on NumPy before 1.24 and a ValueError from 1.24 on; of traces
\* without rows it has no value for values.min() (ValueError)
create_normalizer_from_data(pod_traces, percentile, min_range_factor) ==
  IF pod_traces = <<>>
  THEN {[ok |-> FALSE, error |-> "IndexError"]}
  ELSE IF \E i \in 1..Len(pod_traces) :
            Len(pod_traces[i].trace) # Len(pod_traces[1].trace)
  THEN {[ok |-> FALSE, error |-> "ValueError"], [ok |-> FALSE, error |-> "IndexError"]}
  ELSE IF pod_traces[1].trace = <<>>
  THEN {[ok |-> FALSE, error |-> "ValueError"]}
  ELSE LET Column(j) ==
             Flatten([i \in 1..Len(pod_traces) |->
                        [t \in 1..Len(pod_traces[i].trace) |-> pod_traces[i].trace[t][j]]])
       IN {AbsoluteNormalizer(
             [name \in Range(METRIC_NAMES) |->
                DataRange(Column(IndexOf(METRIC_NAMES, name)), percentile,
                          min_range_factor)])}

(***************************************************************************)
(* The normalizer at work, as the module's demonstration and usage text    *)
(* run it: a normalizer is made (from fixed ranges, from the data, or      *)
(* from a saved file), saved, and applied to a trace and back.             *)
(***************************************************************************)
\* the row of demonstrate_normalization
ExamplePod ==
  << Decimal(5, 4), Decimal(12, 1), FromInt(3850), Decimal(584, 1), FromInt(72),
     Decimal(867, 1), Decimal(298, 3), Decimal(315, 3), Decimal(598, 3),
     Decimal(699, 3), Decimal(17125, 2), Decimal(17125, 2), FZero, FZero,
     FromInt(1643693933) >>

RowKinds == {"example", "min", "max", "above", "below", "hole"}

\* a row of raw values: the example, the bounds of ABSOLUTE_RANGES, values one
\* beyond them, and the example with the NaN a gap leaves in gpu_memory
RawRow(kind) ==
  [j \in 1..Len(METRIC_NAMES) |->
     LET range == ABSOLUTE_RANGES[METRIC_NAMES[j]]
     IN CASE kind = "example" -> ExamplePod[j]
          [] kind = "min" -> range[1]
          [] kind = "max" -> range[2]
          [] kind = "above" -> FAdd(range[2], FOne)
          [] kind = "below" -> FSub(range[1], FOne)
          [] kind = "hole" -> IF METRIC_NAMES[j] = "gpu_memory" THEN FNaN
                              ELSE ExamplePod[j]]

RawTraces == UNION {[1..T -> {RawRow(k) : k \in RowKinds}] : T \in 1..MaxT}

RawCollections ==
  {<<[trace |-> x,
      meta |-> [workload |-> <<"resnet50">>, replica_count |-> 1, pod_id |-> 1,
                experiment_dir |-> Resnet_r2, n_timesteps |-> Len(x),
                n_metrics |-> Len(METRIC_NAMES)]]>> : x \in RawTraces}

\* what a caller passes as `ranges`: nothing, an empty table, the fixed table
\* with one range moved, emptied or turned round, and a table without one name
RangeInputs ==
  { None,
    [name \in {} |-> <<FZero, FOne>>],
    [ABSOLUTE_RANGES EXCEPT !["gpu_temperature"] = <<FromInt(20), FromInt(100)>>],
    [ABSOLUTE_RANGES EXCEPT !["cpu_psi"] = <<FOne, FOne>>],
    [ABSOLUTE_RANGES EXCEPT !["gpu_power"] = <<FromInt(100), FZero>>],
    [name \in Range(METRIC_NAMES) \ {"throughput"} |-> ABSOLUTE_RANGES[name]] }

\* (percentile, min_range_factor): the defaults, and the median without margin
DataParameters == {<<Decimal(995, 1), Decimal(12, 1)>>, <<FromInt(50), FOne>>}

NormalizerFile == <<"normalizer", ".pkl">>

\* a file saved earlier by a normalizer with ranges of its own
EarlierFile ==
  save(AbsoluteNormalizer(
         [ABSOLUTE_RANGES EXCEPT !["memory_usage"] =
            <<FZero, FromInt(2000000000)>>]).normalizer,
       NormalizerFile)

InitNorm ==
  /\ fs = {EarlierFile}
  /\ pc = "idle"
  /\ exp_dirs = <<>>
  /\ idx = 0
  /\ merged_df = NoTable
  /\ all_pod_traces \in RawCollections
  /\ reported = <<>>
  /\ call = NoCall
  /\ ret = NoRet
  /\ normalizer = None

\* the statement `normalizer = <call>` with the outcome res of the call
Assign(res) ==
  IF res.ok
  THEN /\ normalizer' = res.normalizer
       /\ ret' = [ok |-> TRUE]
       /\ pc' = "ready"
  ELSE /\ ret' = res
       /\ pc' = "raised"
       /\ UNCHANGED normalizer

\* normalizer = AbsoluteNormalizer(ranges)
Construct ==
  /\ pc = "idle"
  /\ \E ranges \in RangeInputs :
       /\ call' = [op |-> "AbsoluteNormalizer", ranges |-> ranges]
       /\ Assign(AbsoluteNormalizer(ranges))
  /\ UNCHANGED <<fs, exp_dirs, idx, merged_df, all_pod_traces, reported>>

\* normalizer = create_normalizer_from_data(pod_traces, percentile, min_range_factor)
CreateNormalizerFromData ==
  /\ pc = "idle"
  /\ \E par \in DataParameters :
       /\ call' = [op |-> "create_normalizer_from_data",
                   percentile |-> par[1], min_range_factor |-> par[2]]
       /\ \E res \in create_normalizer_from_data(all_pod_traces, par[1], par[2]) :
            Assign(res)
  /\ UNCHANGED <<fs, exp_dirs, idx, merged_df, all_pod_traces, reported>>

\* normalizer.save(filepath)
Save ==
  /\ pc = "ready"
  /\ call.op # "save"
  /\ call' = [op |-> "save", filepath |-> NormalizerFile]
  /\ fs' = {f \in fs : f.name # NormalizerFile} \cup {save(normalizer, NormalizerFile)}
  /\ ret' = [ok |-> TRUE]
  /\ UNCHANGED <<pc, exp_dirs, idx, merged_df, all_pod_traces, reported, normalizer>>

\* normalizer = AbsoluteNormalizer.load(filepath), whatever normalizer is in use
Load ==
  /\ pc \in {"idle", "ready"}
  /\ call.op # "load"
  /\ \E f \in fs :
       /\ f.name = NormalizerFile
       /\ call' = [op |-> "load", filepath |-> NormalizerFile]
       /\ Assign(load(f))
  /\ UNCHANGED <<fs, exp_dirs, idx, merged_df, all_pod_traces, reported>>

\* normalized = normalizer.normalize(trace), for a trace of the collection
Normalize ==
  /\ pc = "ready"
  /\ \E i \in 1..Len(all_pod_traces) :
       /\ idx' = i
       /\ call' = [op |-> "normalize", trace |-> all_pod_traces[i].trace]
       /\ ret' = [ok |-> TRUE,
                  normalized |-> normalize(normalizer, all_pod_traces[i].trace)]
  /\ pc' = "normalized"
  /\ UNCHANGED <<fs, exp_dirs, merged_df, all_pod_traces, reported, normalizer>>

\* denormalized = normalizer.denormalize(normalized)
Denormalize ==
  /\ pc = "normalized"
  /\ call' = [op |-> "denormalize", normalized_trace |-> ret.normalized]
  /\ ret' = [ok |-> TRUE, denormalized |-> denormalize(normalizer, ret.normalized)]
  /\ pc' = "denormalized"
  /\ UNCHANGED <<fs, exp_dirs, idx, merged_df, all_pod_traces, reported, normalizer>>

NextNorm ==
  \/ Construct
  \/ CreateNormalizerFromData
  \/ Save
  \/ Load
  \/ Normalize
  \/ Denormalize

SpecNorm == InitNorm /\ [][NextNorm]_vars

(***************************************************************************)
(* The store of scripts/phase2/phase1_data_loader.py: save_pod_traces      *)
(* writes the traces and the metadata as two .npy files, and               *)
(* load_saved_pod_traces reads them back and pairs them.                   *)
(***************************************************************************)
\* the shape of a trace, (rows, columns)
Shape2(trace) == <<Len(trace), IF trace = <<>> THEN 0 ELSE Len(trace[1])>>

\* the traces do not all have one shape
Ragged(traces) == \E i, n \in 1..Len(traces) : Shape2(traces[i]) # Shape2(traces[n])

\* np.asanyarray(traces) for traces of one shape: an array of N x T x M floats
\* in row-major order
StackedArray(traces) ==
  IF traces = <<>>
  THEN [dtype |-> "float64", shape |-> <<0>>, data |-> <<>>]
  ELSE [dtype |-> "float64",
        shape |-> <<Len(traces)>> \o Shape2(traces[1]),
        data |-> Flatten([i \in 1..Len(traces) |-> Flatten(traces[i])])]

\* np.asanyarray(objects) for a list of python objects: an array of objects,
\* and an array of no floats for the empty list
ObjectArray(objects) ==
  IF objects = <<>>
  THEN [dtype |-> "float64", shape |-> <<0>>, data |-> <<>>]
  ELSE [dtype |-> "object", shape |-> <<Len(objects)>>, data |-> objects]

\* the outcomes of np.asanyarray(traces): an array of floats for traces of
\* one shape; for ragged traces an array of objects on NumPy before 1.24 and
\* a ValueError from 1.24 on
AsAnyArray(traces) ==
  IF Ragged(traces)
  THEN {[ok |-> TRUE, array |-> ObjectArray(traces)],
        [ok |-> FALSE, error |-> "ValueError"]}
  ELSE {[ok |-> TRUE, array |-> StackedArray(traces)]}

\* list(array): the items along the first axis
Items(array) ==
  IF array.dtype = "object" \/ array.shape = <<0>>
  THEN array.data
  ELSE LET T == array.shape[2]
           M == array.shape[3]
       IN [i \in 1..array.shape[1] |->
             [t \in 1..T |->
                [j \in 1..M |-> array.data[((i - 1) * T + (t - 1)) * M + j]]]]

\* zip(a, b)
Zip(a, b) ==
  [i \in 1..(IF Len(a) < Len(b) THEN Len(a) ELSE Len(b)) |->
     [trace |-> a[i], meta |-> b[i]]]

TracesFile == <<"pod_traces", ".npy">>

MetadataFile == <<"pod_metadata", ".npy">>

\* the files of output_dir after np.save(name, ...) left `data` in the file `name`
Written(files, name, data) ==
  {f \in files : f.name # name} \cup {[name |-> name, data |-> data]}

\* a file opened for writing into which nothing was written
Empty == [empty |-> TRUE]

\* the traces to store: one to MaxT rows, each the example row or the row of maxima
StoreTraces == UNION {[1..T -> {RawRow("example"), RawRow("max")}] : T \in 1..MaxT}

\* collections of up to MaxPods traces, with the metadata extract_pod_traces gives
StoreCollections ==
  UNION {{[i \in 1..n |->
             [trace |-> c[i],
              meta |-> [workload |-> <<"resnet50">>, replica_count |-> n, pod_id |-> i,
                        experiment_dir |-> Resnet_r2, n_timesteps |-> Len(c[i]),
                        n_metrics |-> Len(METRIC_NAMES)]]] :
           c \in [1..n -> StoreTraces]} : n \in 0..MaxPods}

\* what an earlier run left in the directory
EarlierStore ==
  {[name |-> TracesFile, data |-> StackedArray(<<<<RawRow("min")>>>>)],
   [name |-> MetadataFile,
    data |-> ObjectArray(<<[workload |-> <<"bert">>, replica_count |-> 1, pod_id |-> 1,
                            experiment_dir |-> Resnet_r2, n_timesteps |-> 1,
                            n_metrics |-> Len(METRIC_NAMES)]>>)]}

InitStore ==
  /\ fs \in {{}, EarlierStore}
  /\ pc = "idle"
  /\ exp_dirs = <<>>
  /\ idx = 0
  /\ merged_df = NoTable
  /\ all_pod_traces \in StoreCollections
  /\ reported = <<>>
  /\ call = NoCall
  /\ ret = NoRet
  /\ normalizer = None

\* save_pod_traces(pod_traces, output_dir): np.save opens the file before it
\* converts its argument, so a failed conversion leaves pod_traces.npy empty
\* and pod_metadata.npy as it was
SavePodTraces ==
  /\ pc = "idle"
  /\ call' = [op |-> "save_pod_traces"]
  /\ LET traces == [i \in 1..Len(all_pod_traces) |-> all_pod_traces[i].trace]
         metadata == [i \in 1..Len(all_pod_traces) |-> all_pod_traces[i].meta]
     IN \E res \in AsAnyArray(traces) :
          IF res.ok
          THEN /\ fs' = Written(Written(fs, TracesFile, res.array),
                                MetadataFile, ObjectArray(metadata))
               /\ ret' = [ok |-> TRUE]
               /\ pc' = "saved"
          ELSE /\ fs' = Written(fs, TracesFile, Empty)
               /\ ret' = res
               /\ pc' = "raised"
  /\ UNCHANGED <<exp_dirs, idx, merged_df, all_pod_traces, reported, normalizer>>

\* load_saved_pod_traces(input_dir): np.load of the traces, then of the
\* metadata; np.load raises FileNotFoundError without the file and EOFError
\* for a file that holds nothing
load_saved_pod_traces(files) ==
  LET NpLoad(name) ==
        IF \A f \in files : f.name # name
        THEN [ok |-> FALSE, error |-> "FileNotFoundError"]
        ELSE LET data == (CHOOSE f \in files : f.name = name).data
             IN IF data = Empty THEN [ok |-> FALSE, error |-> "EOFError"]
                ELSE [ok |-> TRUE, array |-> data]
      traces == NpLoad(TracesFile)
      metadata == NpLoad(MetadataFile)
  IN IF ~traces.ok THEN traces
     ELSE IF ~metadata.ok THEN metadata
     ELSE [ok |-> TRUE,
           pod_traces |-> Zip(Items(traces.array), Items(metadata.array))]

\* a later run calls load_saved_pod_traces on the directory
LoadSavedPodTraces ==
  /\ pc \in {"idle", "saved", "raised"}
  /\ call' = [op |-> "load_saved_pod_traces", after |-> call.op]
  /\ ret' = load_saved_pod_traces(fs)
  /\ pc' = "loaded"
  /\ UNCHANGED <<fs, exp_dirs, idx, merged_df, all_pod_traces, reported, normalizer>>

NextStore ==
  \/ SavePodTraces
  \/ LoadSavedPodTraces

SpecStore == InitStore /\ [][NextStore]_vars

(***************************************************************************)
(* load_metric_data called on its own, for every catalog metric, on        *)
(* sources with any set of columns and with zero or more rows.             *)
(***************************************************************************)
\* the columns a source may have: the three the loader reads and a label
SourceColumns == {"timestamp", "value", "pod", "instance"}

\* the rows of a source with the columns cols: row i observes timestamp i
SourceRowsFor(m, cols, n) ==
  [i \in 1..n |->
     [c \in cols |->
        CASE c = "timestamp" -> i
          [] c = "value" -> Obs(m, i, 1, 0)
          [] OTHER -> 1]]

\* sources named as the exporter names them
Sources(m) ==
  {[name |-> FileName(Resnet_r2, m), cols |-> cols, rows |-> SourceRowsFor(m, cols, n)] :
     cols \in SUBSET SourceColumns, n \in 0..MaxT}

InitLoad ==
  /\ fs = {}
  /\ pc = "idle"
  /\ exp_dirs = <<>>
  /\ idx = 0
  /\ merged_df = NoTable
  /\ all_pod_traces = <<>>
  /\ reported = <<>>
  /\ call \in UNION {{[op |-> "load_metric_data", csv_file |-> f, metric_name |-> m] :
                        f \in Sources(m)} : m \in Range(METRIC_ORDER)}
  /\ ret = NoRet
  /\ normalizer = None

LoadMetricData ==
  /\ pc = "idle"
  /\ call.op = "load_metric_data"
  /\ ret' = load_metric_data(call.csv_file, call.metric_name)
  /\ pc' = "returned"
  /\ UNCHANGED <<fs, exp_dirs, idx, merged_df, all_pod_traces, reported, call, normalizer>>

SpecLoad == InitLoad /\ [][LoadMetricData]_vars

(***************************************************************************)
(* The batch forms of the normalizer, called in any order on a normalizer  *)
(* that is ready, before a single trace is normalized and denormalized.    *)
(***************************************************************************)
\* a batch form that normalizes its first trace at every position
NormalizeBatchFirstTrace(self, traces) ==
  [i \in 1..Len(traces) |-> normalize(self, traces[1])]

\* normalizer.normalize_batch(traces)
normalize_batch(self, traces) ==
  [i \in 1..Len(traces) |-> normalize(self, traces[i])]

\* normalizer.denormalize_batch(normalized_traces)
denormalize_batch(self, normalized_traces) ==
  [i \in 1..Len(normalized_traces) |-> denormalize(self, normalized_traces[i])]

\* a normalizer with the fixed ranges or with a range of its own, and a
\* collection of up to MaxPods one-row traces
InitBatch ==
  /\ fs = {}
  /\ pc = "ready"
  /\ exp_dirs = <<>>
  /\ idx = 0
  /\ merged_df = NoTable
  /\ all_pod_traces \in
       UNION {[1..n -> {[trace |-> <<RawRow(k)>>,
                         meta |-> [workload |-> <<"resnet50">>, replica_count |-> 1,
                                   pod_id |-> 1, experiment_dir |-> Resnet_r2,
                                   n_timesteps |-> 1,
                                   n_metrics |-> Len(METRIC_NAMES)]] :
                          k \in {"example", "max", "above", "below"}}] :
              n \in 1..MaxPods}
  /\ reported = <<>>
  /\ call = NoCall
  /\ ret = NoRet
  /\ normalizer \in
       {AbsoluteNormalizer(ranges).normalizer :
          ranges \in {None,
                      [ABSOLUTE_RANGES EXCEPT
                         !["gpu_temperature"] = <<FromInt(20), FromInt(100)>>]}}

\* normalized = normalizer.normalize_batch(np.array(traces))
NormalizeBatch ==
  /\ pc = "ready"
  /\ call' = [op |-> "normalize_batch",
              traces |-> [i \in 1..Len(all_pod_traces) |-> all_pod_traces[i].trace]]
  /\ ret' = [ok |-> TRUE,
             normalized_batch |->
               normalize_batch(normalizer,
                               [i \in 1..Len(all_pod_traces) |-> all_pod_traces[i].trace])]
  /\ UNCHANGED <<fs, pc, exp_dirs, idx, merged_df, all_pod_traces, reported, normalizer>>

\* denormalized = normalizer.denormalize_batch(normalized)
DenormalizeBatch ==
  /\ pc = "ready"
  /\ call.op = "normalize_batch"
  /\ call' = [op |-> "denormalize_batch", normalized_traces |-> ret.normalized_batch]
  /\ ret' = [ok |-> TRUE,
             denormalized_batch |-> denormalize_batch(normalizer, ret.normalized_batch)]
  /\ UNCHANGED <<fs, pc, exp_dirs, idx, merged_df, all_pod_traces, reported, normalizer>>

NextBatch ==
  \/ NormalizeBatch
  \/ DenormalizeBatch
  \/ Normalize
  \/ Denormalize

SpecBatch == InitBatch /\ [][NextBatch]_vars

(***************************************************************************)
(* extract_pod_traces called on its own, on the merged table of a complete *)
(* directory from which up to two metric columns, or all rows, were taken. *)
(***************************************************************************)
\* the table df without the columns in dropped
WithoutColumns(df, dropped) ==
  [cols |-> SelectSeq(df.cols, LAMBDA c : c \notin dropped),
   rows |-> [i \in 1..Len(df.rows) |->
              [c \in Range(df.cols) \ dropped |-> df.rows[i][c]]]]

InitExtract ==
  /\ fs = {}
  /\ pc = "idle"
  /\ exp_dirs = <<>>
  /\ idx = 0
  /\ merged_df \in
       UNION {{WithoutColumns(df, dropped), [WithoutColumns(df, dropped) EXCEPT !.rows = <<>>]} :
                df \in {merge_experiment_data(
                          Directory(Resnet_r2, E, MaxT, [kind |-> "none"])).df :
                          E \in 1..MaxPods},
                dropped \in {D \in SUBSET Range(METRIC_ORDER) : Cardinality(D) <= 2}}
  /\ all_pod_traces = <<>>
  /\ reported = <<>>
  /\ call = [op |-> "extract_pod_traces", exp_dir_name |-> Resnet_r2]
  /\ ret = NoRet
  /\ normalizer = None

\* pod_traces = extract_pod_traces(merged_df, exp_dir_name)
ExtractPodTracesOf ==
  /\ pc = "idle"
  /\ call.op = "extract_pod_traces"
  /\ ret' \in extract_pod_traces(merged_df, call.exp_dir_name)
  /\ pc' = "returned"
  /\ UNCHANGED <<fs, exp_dirs, idx, merged_df, all_pod_traces, reported, call, normalizer>>

SpecExtract == InitExtract /\ [][ExtractPodTracesOf]_vars

(***************************************************************************)
(* load_phase1_data on one directory at a time, with any deviation of its  *)
(* files.                                                                  *)
(***************************************************************************)
InitOne ==
  /\ fs \in {{d} : d \in StudiedDirs}
  /\ pc = "idle"
  /\ exp_dirs = <<>>
  /\ idx = 0
  /\ merged_df = NoTable
  /\ all_pod_traces = <<>>
  /\ reported = <<>>
  /\ call = NoCall
  /\ ret = NoRet
  /\ normalizer = None

SpecOne == InitOne /\ [][Next]_vars

(***************************************************************************)
(* load_phase1_data on any choice of directories out of a few: complete    *)
(* ones, one with a source missing, one with a source doubled and one      *)
(* with a name that cannot be read.                                        *)
(***************************************************************************)
GroupPool ==
  { Directory(<<"distilbert", "_", "r", "1">>, 1, MaxT, [kind |-> "none"]),
    Directory(<<"whisper", "_", "r", "1">>, 1, MaxT, [kind |-> "none"]),
    Directory(Resnet_r2, MaxPods, MaxT, [kind |-> "none"]),
    Directory(Resnet_r2, MaxPods, MaxT, [kind |-> "second", metric |-> "cpu_psi"]),
    Directory(<<"resnet50", "_", "r", "1", "0">>, MaxPods, MaxT,
              [kind |-> "missing", metric |-> "memory_usage"]),
    Directory(<<"resnet50">>, 1, MaxT, [kind |-> "none"]) }

InitGroups ==
  /\ fs \in {S \in SUBSET GroupPool :
               S # {} /\ \A a, b \in S : a.name = b.name => a = b}
  /\ pc = "idle"
  /\ exp_dirs = <<>>
  /\ idx = 0
  /\ merged_df = NoTable
  /\ all_pod_traces = <<>>
  /\ reported = <<>>
  /\ call = NoCall
  /\ ret = NoRet
  /\ normalizer = None

SpecGroups == InitGroups /\ [][Next]_vars

(***************************************************************************)
(* Properties.  What the inputs say, read from the files themselves: a     *)
(* value tells the metric, timestamp and pod of its observation.           *)
(***************************************************************************)
ObsMetric(v) == v \div 1000

ObsTime(v) == (v \div 100) % 10

ObsPod(v) == (v \div 10) % 10

Traces == Range(all_pod_traces)

TracesOf(g) == SelectSeq(all_pod_traces, LAMBDA x : x.meta.experiment_dir = g)

\* the file the exporter wrote for metric m, and its second copy if any
SourcesFor(dir, m) ==
  LET names == {FileName(dir.name, m),
                dir.name \o <<"_">> \o MetricTokens(m)
                  \o <<"_", "ts", "_", "copy", ".csv">>}
  IN {f \in dir.files : f.name \in names}

SourceRows(dir, m) == (CHOOSE f \in SourcesFor(dir, m) : TRUE).rows

\* the timestamp of a trace row: that of the per-pod observations in it
RowTime(row) ==
  LET seen == {row[MetricIndex(m)] : m \in Range(PER_POD_METRICS)} \ {NaN}
  IN IF seen = {} THEN 0 ELSE ObsTime(CHOOSE v \in seen : TRUE)

\* directory k of the loop has been merged and extracted without an error,
\* and nothing was merged since: merged_df is its table
ExtractedLast ==
  /\ pc \in {"merge", "done", "returned"}
  /\ idx > 1
  /\ \A i \in 1..Len(reported) : reported[i].dir # exp_dirs[idx - 1]

LastDir == exp_dirs[idx - 1]

\* C1 (as claimed): no trace that extraction returned holds a NaN
C1_NoNaNInReturnedTraces ==
  \A x \in Traces :
    \A i \in 1..Len(x.trace) : \A j \in 1..Len(x.trace[i]) : x.trace[i][j] # NaN

PerPodPart(row) ==
  [c \in {"timestamp", "pod"} \cup Range(PER_POD_METRICS) |-> row[c]]

CountRows(rows, r) == Cardinality({i \in 1..Len(rows) : rows[i] = r})

\* C2 (as claimed): the merged table has exactly the rows of the per-pod
\* wide table, each once, and every row has a pod id
C2_MergedRowsArePerPodRows ==
  pc = "extract" =>
    LET wide == PerPodMerged(LoadAll(DirNamed(exp_dirs[idx])))
        part == [i \in 1..Len(merged_df.rows) |-> PerPodPart(merged_df.rows[i])]
    IN /\ Len(part) = Len(wide.rows)
       /\ \A i \in 1..Len(wide.rows) :
            CountRows(part, wide.rows[i]) = CountRows(wide.rows, wide.rows[i])
       /\ \A i \in 1..Len(part) : part[i]["pod"] # NaN

SharedObserved(rows, t) ==
  LET seen == {rows[i]["value"] :
                 i \in {n \in 1..Len(rows) : rows[n]["timestamp"] = t}}
  IN IF seen = {} THEN {NaN} ELSE seen

\* C3: in the traces of a group, the rows at timestamp t carry in each
\* system-metric column exactly the values the system series observed at t
\* (NaN when it observed none), the same for every pod with a row at t
C3_SharedBroadcast ==
  \A x \in Traces :
    LET dir == DirNamed(x.meta.experiment_dir)
        times == [i \in 1..Len(x.trace) |-> RowTime(x.trace[i])]
    IN \A m \in Range(SYSTEM_METRICS) :
         LET rows == SourceRows(dir, m)
             j == MetricIndex(m)
         IN \A t \in Range(times) :
              {x.trace[n][j] : n \in {k \in 1..Len(x.trace) : times[k] = t}}
              = SharedObserved(rows, t)

C3_Witness ==
  \E x, y \in Traces :
    /\ x.meta.experiment_dir = y.meta.experiment_dir
    /\ x.meta.pod_id # y.meta.pod_id
    /\ RowTime(x.trace[1]) = RowTime(y.trace[1])
    /\ x.trace[1][MetricIndex("gpu_power")] # NaN
    /\ x.trace[1][MetricIndex("gpu_power")] = y.trace[1][MetricIndex("gpu_power")]

LacksSource(dir) == \E m \in Range(METRIC_ORDER) : SourcesFor(dir, m) = {}

\* C4: a directory in which some catalog metric has no source is reported
\* with a not-found error, its merge never completes and it has no trace
C4_MissingSourceFailsGroup ==
  \A k \in 1..Len(exp_dirs) :
    LacksSource(DirNamed(exp_dirs[k])) =>
      /\ TracesOf(exp_dirs[k]) = <<>>
      /\ ~(pc = "extract" /\ idx = k)
      /\ k < idx =>
           \E i \in 1..Len(reported) :
             reported[i] = [dir |-> exp_dirs[k], error |-> "FileNotFoundError"]

C4_Witness ==
  /\ pc = "returned"
  /\ \E k \in 1..Len(exp_dirs) :
       /\ LacksSource(DirNamed(exp_dirs[k]))
       /\ SourcesFor(DirNamed(exp_dirs[k]), "memory_usage") = {}
       /\ \E i \in 1..Len(reported) : reported[i].dir = exp_dirs[k]

VisibleCsv(dir) ==
  {f \in dir.files : f.name[Len(f.name)] = ".csv" /\ f.name[1] # "."}

IsConventional(dir) ==
  {f.name : f \in VisibleCsv(dir)} = {FileName(dir.name, m) : m \in Range(METRIC_ORDER)}

\* C5: find_metric_file returns the source of the metric when the
\* directory holds exactly one, fails with not-found when it holds none
\* and with an ambiguity error when it holds several; in a directory with
\* exactly the conventional sources every metric resolves to its own
C5_FindMetricFileExactlyOne ==
  (pc = "returned" /\ call.op = "find_metric_file") =>
    LET dir == CHOOSE d \in fs : TRUE
        sources == SourcesFor(dir, call.metric_name)
    IN /\ Cardinality(sources) = 1 => (ret.ok /\ ret.file \in sources)
       /\ Cardinality(sources) = 0 => (~ret.ok /\ ret.error = "FileNotFoundError")
       /\ Cardinality(sources) > 1 => (~ret.ok /\ ret.error = "ValueError")
       /\ IsConventional(dir) =>
            (ret.ok /\ ret.file.name = FileName(dir.name, call.metric_name))

C5_Witness ==
  /\ pc = "returned"
  /\ call.op = "find_metric_file"
  /\ call.metric_name = "memory_usage"
  /\ IsConventional(CHOOSE d \in fs : TRUE)
  /\ ret.ok
  /\ ret.file.name = FileName(Resnet_r2, "memory_usage")

PodsOf(dir) == {SourceRows(dir, "cpu_psi")[i]["pod"] :
                  i \in 1..Len(SourceRows(dir, "cpu_psi"))}

TimesOf(dir) == {SourceRows(dir, "cpu_psi")[i]["timestamp"] :
                   i \in 1..Len(SourceRows(dir, "cpu_psi"))}

CoversOnce(rows, keys, perPod) ==
  /\ Len(rows) = Cardinality(keys)
  /\ \A k \in keys : \E i \in 1..Len(rows) :
       k = IF perPod THEN <<rows[i]["timestamp"], rows[i]["pod"]>>
           ELSE <<rows[i]["timestamp"]>>

IsComplete(dir) ==
  /\ \A m \in Range(METRIC_ORDER) : Cardinality(SourcesFor(dir, m)) = 1
  /\ \A m \in Range(PER_POD_METRICS) :
       CoversOnce(SourceRows(dir, m), TimesOf(dir) \X PodsOf(dir), TRUE)
  /\ \A m \in Range(SYSTEM_METRICS) :
       CoversOnce(SourceRows(dir, m), {<<t>> : t \in TimesOf(dir)}, FALSE)

\* what the names of the model say, written out
NamedInfo(name) ==
  CASE name = Resnet_r2 -> [workload |-> <<"resnet50">>, replica_count |-> 2]
    [] name = <<"resnet50", "_", "r", "0">> ->
         [workload |-> <<"resnet50">>, replica_count |-> 0]
    [] name = <<"resnet50", "_", "r", "1", "0">> ->
         [workload |-> <<"resnet50">>, replica_count |-> 10]
    [] name = <<"resnet50", "_", "r", "2", "_", "old">> ->
         [workload |-> <<"resnet50">>, replica_count |-> 2]
    [] name = <<"distilbert", "_", "r", "1">> ->
         [workload |-> <<"distilbert">>, replica_count |-> 1]
    [] name = <<"whisper", "_", "r", "1">> ->
         [workload |-> <<"whisper">>, replica_count |-> 1]
    [] OTHER -> [workload |-> <<>>, replica_count |-> 0 - 1]

\* C6: a directory with all 15 sources, each covering every timestamp (for
\* every pod) exactly once, yields one trace per pod, each of T rows and 15
\* columns without NaN, with the workload and replica count of its name
C6_MergeCompleteness ==
  \A k \in 1..Len(exp_dirs) :
    LET dir == DirNamed(exp_dirs[k])
        got == TracesOf(exp_dirs[k])
    IN (k < idx /\ IsComplete(dir) /\ NamedInfo(dir.name).replica_count >= 0) =>
         /\ Len(got) = Cardinality(PodsOf(dir))
         /\ \A n \in 1..Len(got) :
              /\ Len(got[n].trace) = Cardinality(TimesOf(dir))
              /\ \A i \in 1..Len(got[n].trace) :
                   /\ Len(got[n].trace[i]) = 15
                   /\ \A j \in 1..15 : got[n].trace[i][j] # NaN
              /\ got[n].meta.workload = NamedInfo(dir.name).workload
              /\ got[n].meta.replica_count = NamedInfo(dir.name).replica_count

C6_Witness ==
  /\ pc = "returned"
  /\ \E d \in fs :
       /\ d.name = Resnet_r2
       /\ IsComplete(d)
       /\ Cardinality(PodsOf(d)) = 2
       /\ Len(TracesOf(d.name)) = 2
       /\ Len(TracesOf(d.name)[1].trace) = MaxT
       /\ TracesOf(d.name)[1].meta.replica_count = 2

PodIdsIn(df) == {df.rows[i]["pod"] : i \in 1..Len(df.rows)}

\* C7: the traces of the directory extracted last are one per pod id of its
\* merged table: every pod id has a trace and none has two
C7_OneTracePerPod ==
  ExtractedLast =>
    LET got == TracesOf(LastDir)
    IN /\ {got[n].meta.pod_id : n \in 1..Len(got)} = PodIdsIn(merged_df)
       /\ Len(got) = Cardinality(PodIdsIn(merged_df))

C7_Witness ==
  /\ ExtractedLast
  /\ Cardinality(PodIdsIn(merged_df)) = 2
  /\ Len(merged_df.rows) > 2
  /\ Len(TracesOf(LastDir)) = 2

\* C8: every row of every trace has 15 columns, and column j holds values
\* observed for METRIC_ORDER[j] (or NaN): those of that column of the
\* merged table for the pod
C8_ColumnsInCatalogOrder ==
  /\ \A x \in Traces :
       \A i \in 1..Len(x.trace) :
         /\ Len(x.trace[i]) = 15
         /\ \A j \in 1..15 :
              x.trace[i][j] # NaN => ObsMetric(x.trace[i][j]) = j
  /\ ExtractedLast =>
       \A x \in Range(TracesOf(LastDir)) :
         \A j \in 1..15 :
           {x.trace[i][j] : i \in 1..Len(x.trace)}
           = {merged_df.rows[i][METRIC_ORDER[j]] :
                i \in {n \in 1..Len(merged_df.rows) :
                         merged_df.rows[n]["pod"] = x.meta.pod_id}}

C8_Witness ==
  /\ ExtractedLast
  /\ SubSeq(merged_df.cols, 1, 4) = <<"timestamp", "cpu_psi", "pod", "cpu_usage">>
  /\ \E x \in Range(TracesOf(LastDir)) :
       /\ Len(x.trace) = MaxT
       /\ \A j \in 1..15 : ObsMetric(x.trace[1][j]) = j

\* C9: the merged table is in ascending (timestamp, pod) order and the rows
\* of every trace are in non-decreasing timestamp order
C9_TemporalOrder ==
  /\ \A i \in 1..(Len(merged_df.rows) - 1) :
       ~KeyLess(<<merged_df.rows[i + 1]["timestamp"], merged_df.rows[i + 1]["pod"]>>,
                <<merged_df.rows[i]["timestamp"], merged_df.rows[i]["pod"]>>)
  /\ \A x \in Traces :
       \A i \in 1..(Len(x.trace) - 1) :
         RowTime(x.trace[i]) <= RowTime(x.trace[i + 1])

C9_Witness ==
  /\ ExtractedLast
  /\ \E m \in Range(METRIC_ORDER) :
       \E i \in 1..(Len(SourceRows(DirNamed(LastDir), m)) - 1) :
         SourceRows(DirNamed(LastDir), m)[i]["timestamp"]
           > SourceRows(DirNamed(LastDir), m)[i + 1]["timestamp"]
  /\ Cardinality(PodIdsIn(merged_df)) = 2
  /\ \E x \in Range(TracesOf(LastDir)) :
       Len(x.trace) = MaxT /\ RowTime(x.trace[1]) < RowTime(x.trace[MaxT])

HasGroupForm(s, k) ==
  /\ k >= 1
  /\ k + 3 <= Len(s)
  /\ s[k + 1] = "_"
  /\ s[k + 2] = "r"
  /\ \A j \in (k + 3)..Len(s) : s[j] \in Digits

\* C10 (as claimed): extract_experiment_info returns a pair exactly for the
\* names <workload>_r<digits>, with the workload before "_r", the digits
\* as the replica count, and a replica count of at least 1
C10_AcceptsExactlyTheForm ==
  (pc = "returned" /\ call.op = "extract_experiment_info") =>
    LET s == call.exp_dir_name
    IN /\ ret.ok <=> \E k \in 1..Len(s) : HasGroupForm(s, k)
       /\ ret.ok => ret.replica_count >= 1

(***************************************************************************)
(* Properties of the normalizer, over SpecNorm.                            *)
(***************************************************************************)
\* the trace handed to normalize
Original == all_pod_traces[idx].trace

Channels == 1..Len(METRIC_NAMES)

\* every value of the trace lies inside its channel's [min, max]
InsideRanges(self, trace) ==
  \A t \in 1..Len(trace) : \A j \in Channels :
    /\ ~IsNaN(trace[t][j])
    /\ ~FLess(trace[t][j], self.mins[j])
    /\ ~FLess(self.maxs[j], trace[t][j])

\* the table is a RangeTable: max > min in every channel
ProperRanges(self) == \A j \in Channels : FLess(self.mins[j], self.maxs[j])

\* np.abs(a - b)
AbsError(a, b) == FAbs(FSub(a, b))

\* C11 (as claimed): a trace with every value inside its channel's range comes
\* back from normalize and denormalize with an absolute error below 1e-3 in
\* every channel, memory_usage at about 1e9 included
C11_RoundTrip ==
  (/\ pc = "denormalized"
   /\ ProperRanges(normalizer)
   /\ InsideRanges(normalizer, Original)) =>
    \A t \in 1..Len(Original) : \A j \in Channels :
      FLess(AbsError(Original[t][j], ret.denormalized[t][j]), Decimal(1, 3))

\* C12 (as claimed): in every channel a value equal to max normalizes to 1.0
\* and a value equal to min to 0.0; a value above max normalizes to exactly
\* 1.0 and denormalizes back to max, a value below min to exactly 0.0 and
\* back to min
C12_ClampingBoundary ==
  (pc = "denormalized" /\ ProperRanges(normalizer)) =>
    \A t \in 1..Len(Original) : \A j \in Channels :
      LET x == Original[t][j]
          n == call.normalized_trace[t][j]
          d == ret.denormalized[t][j]
          min == normalizer.mins[j]
          max == normalizer.maxs[j]
      IN /\ x = max => n = FOne
         /\ x = min => n = FZero
         /\ FLess(max, x) => n = FOne /\ d = max
         /\ FLess(x, min) => n = FZero /\ d = min

\* v lies in [0, 1]
InUnitInterval(v) == ~IsNaN(v) /\ ~FLess(v, FZero) /\ ~FLess(FOne, v)

\* clamp((x - min) / (max - min), 0, 1) for the range of channel j, to the
\* precision of the float32 array that normalize returns
ClampedShare(self, j, x) ==
  LET range == self.ranges[METRIC_NAMES[j]]
  IN Float32(Clip(FDiv(FSub(x, range[1]), FSub(range[2], range[1])), FZero, FOne))

\* C13 (as claimed): for every input trace and every table a normalizer
\* holds, normalize returns an array of the shape of its input whose element
\* in channel j is clamp((x - min_j) / (max_j - min_j), 0, 1), and every
\* element lies in [0, 1]
C13_NormalizeIntoUnitInterval ==
  pc = "normalized" =>
    /\ Len(ret.normalized) = Len(Original)
    /\ \A t \in 1..Len(Original) :
         /\ Len(ret.normalized[t]) = Len(Original[t])
         /\ \A j \in Channels :
              /\ ret.normalized[t][j] = ClampedShare(normalizer, j, Original[t][j])
              /\ InUnitInterval(ret.normalized[t][j])

\* C14 (as claimed): every table held by a normalizer, be it the default
\* one, a caller's, one derived from data or one restored by load, maps each
\* of the 15 metric names to one (min, max) pair with max > min
C14_HeldTableIsRangeTable ==
  normalizer # None =>
    /\ DOMAIN normalizer.ranges = Range(METRIC_NAMES)
    /\ \A name \in Range(METRIC_NAMES) :
         /\ Len(normalizer.ranges[name]) = 2
         /\ FLess(normalizer.ranges[name][1], normalizer.ranges[name][2])

\* all values observed for the metric named name, as flattened from the collection
Observed(name) ==
  LET j == IndexOf(METRIC_NAMES, name)
      rows == Flatten([i \in 1..Len(all_pod_traces) |-> all_pod_traces[i].trace])
  IN [r \in 1..Len(rows) |-> rows[r][j]]

\* the least of the values, for values without NaN
LeastOf(values) ==
  values[CHOOSE i \in 1..Len(values) : \A n \in 1..Len(values) : ~FLess(values[n], values[i])]

\* C15 (as claimed): create_normalizer_from_data sets, for each metric,
\* min = max(0, observed min) and max = percentile(observed, p) * margin, or
\* max = min + 1 when max - min is below epsilon, and the derived range always
\* has max > min
C15_DataDerivedRanges ==
  (pc = "ready" /\ call.op = "create_normalizer_from_data") =>
    \A name \in Range(METRIC_NAMES) :
      LET min == normalizer.ranges[name][1]
          max == normalizer.ranges[name][2]
          scaled == FMul(Percentile(Observed(name), call.percentile),
                         call.min_range_factor)
      IN /\ \/ \E i \in 1..Len(Observed(name)) : IsNaN(Observed(name)[i])
            \/ min = PyMax0(LeastOf(Observed(name)))
         /\ IF FLess(FSub(scaled, min), Decimal(1, 6))
            THEN max = FAdd(min, FOne)
            ELSE max = scaled
         /\ FLess(min, max)

\* the file that load reads
SavedFile == CHOOSE f \in fs : f.name = NormalizerFile

\* mins, maxs and scales as computed from the table, in catalog order
VectorsOf(ranges) ==
  [mins |-> [j \in Channels |-> ranges[METRIC_NAMES[j]][1]],
   maxs |-> [j \in Channels |-> ranges[METRIC_NAMES[j]][2]],
   scales |-> [j \in Channels |->
                 FSub(ranges[METRIC_NAMES[j]][2], ranges[METRIC_NAMES[j]][1])]]

\* C17: a normalizer restored by load holds exactly the table that was saved,
\* with the min, max and scale vectors computed from it in catalog order, and
\* these are the vectors that were saved
C17_LoadRestoresSavedTable ==
  (pc = "ready" /\ call.op = "load") =>
    /\ normalizer.ranges = SavedFile.data.ranges
    /\ normalizer.metric_names = METRIC_NAMES
    /\ normalizer.mins = VectorsOf(SavedFile.data.ranges).mins
    /\ normalizer.maxs = VectorsOf(SavedFile.data.ranges).maxs
    /\ normalizer.scales = VectorsOf(SavedFile.data.ranges).scales
    /\ normalizer.mins = SavedFile.data.mins
    /\ normalizer.maxs = SavedFile.data.maxs
    /\ normalizer.scales = SavedFile.data.scales

\* a table derived from data was saved and restored: it is neither the default
\* table nor the table of the file saved earlier
C17_Witness ==
  /\ pc = "ready"
  /\ call.op = "load"
  /\ normalizer.ranges = SavedFile.data.ranges
  /\ normalizer.ranges # ABSOLUTE_RANGES
  /\ normalizer.ranges # EarlierFile.data.ranges
  /\ \A name \in Range(METRIC_NAMES) :
       normalizer.ranges[name][1] = PyMax0(LeastOf(Observed(name)))

(***************************************************************************)
(* Properties of the store, over SpecStore.                                *)
(***************************************************************************)
\* C16 (as claimed): for every collection, save_pod_traces stores it and
\* load_saved_pod_traces on what was written returns as many (trace,
\* metadata) pairs in the same order, each array equal element by element
\* and each metadata record equal and paired with its own trace
C16_StoreRoundTrip ==
  /\ call.op = "save_pod_traces" => ret.ok
  /\ (call.op = "load_saved_pod_traces" /\ call.after = "save_pod_traces") =>
       /\ ret.ok
       /\ ret.pod_traces = all_pod_traces

(***************************************************************************)
(* Properties of the traces' metadata and of the loop of load_phase1_data, *)
(* over Spec.                                                              *)
(***************************************************************************)
\* C18: the metadata of every extracted trace agrees with its data: workload
\* and replica count are those parsed from the directory name recorded in
\* the same metadata, the pod id is that of the pod whose rows form the
\* array, and the recorded timesteps and metrics are the array's row and
\* column counts
C18_MetadataAgreesWithData ==
  \A x \in Traces :
    LET info == extract_experiment_info(x.meta.experiment_dir)
    IN /\ info.ok
       /\ x.meta.workload = info.workload
       /\ x.meta.replica_count = info.replica_count
       /\ x.meta.n_timesteps = Len(x.trace)
       /\ \A i \in 1..Len(x.trace) :
            /\ x.meta.n_metrics = Len(x.trace[i])
            /\ \A m \in Range(PER_POD_METRICS) :
                 x.trace[i][MetricIndex(m)] # NaN =>
                   ObsPod(x.trace[i][MetricIndex(m)]) = x.meta.pod_id

\* the second pod of resnet50_r10: the replica count is the 10 of the name
\* although the directory holds two pods, and the shape is MaxT by 15
C18_Witness ==
  /\ pc = "returned"
  /\ \E x \in Traces :
       /\ x.meta.experiment_dir = <<"resnet50", "_", "r", "1", "0">>
       /\ x.meta.workload = <<"resnet50">>
       /\ x.meta.replica_count = 10
       /\ x.meta.pod_id = 2
       /\ x.meta.n_timesteps = MaxT
       /\ Len(x.trace) = MaxT
       /\ x.meta.n_metrics = 15

\* the directory cannot be processed: a metric without exactly one source,
\* or a name from which workload and replica count cannot be read
HasFatalError(dir) ==
  \/ \E m \in Range(METRIC_ORDER) : Cardinality(SourcesFor(dir, m)) # 1
  \/ ~extract_experiment_info(dir.name).ok

\* the pods observed by any per-pod series of the directory
AllPodsOf(dir) ==
  UNION {{SourceRows(dir, m)[i]["pod"] : i \in 1..Len(SourceRows(dir, m))} :
           m \in Range(PER_POD_METRICS)}

IsReported(g) == \E i \in 1..Len(reported) : reported[i].dir = g

\* C19: of the directories processed so far, one with a fatal error is
\* reported and has no trace in the collection, and one without is not
\* reported and has the trace of each of its pods, once; a directory not yet
\* processed has none
C19_FailedGroupsContributeNothing ==
  \A k \in 1..Len(exp_dirs) :
    LET dir == DirNamed(exp_dirs[k])
        got == TracesOf(exp_dirs[k])
    IN IF k >= idx
       THEN got = <<>> /\ ~IsReported(exp_dirs[k])
       ELSE IF HasFatalError(dir)
       THEN IsReported(exp_dirs[k]) /\ got = <<>>
       ELSE /\ ~IsReported(exp_dirs[k])
            /\ {got[n].meta.pod_id : n \in 1..Len(got)} = AllPodsOf(dir)
            /\ Len(got) = Cardinality(AllPodsOf(dir))

\* load_phase1_data has returned: one directory was reported, for its name or
\* for a doubled source, and the other contributed its traces
C19_Witness ==
  /\ pc = "returned"
  /\ Len(exp_dirs) = 2
  /\ \E k \in 1..2 :
       /\ HasFatalError(DirNamed(exp_dirs[k]))
       /\ ~LacksSource(DirNamed(exp_dirs[k]))
       /\ IsReported(exp_dirs[k])
       /\ TracesOf(exp_dirs[k]) = <<>>
  /\ \E k \in 1..2 :
       /\ ~HasFatalError(DirNamed(exp_dirs[k]))
       /\ TracesOf(exp_dirs[k]) # <<>>
  /\ ret.pod_traces = all_pod_traces

\* the rows of pod p in the merged table leave some metric without a value
IsIncomplete(df, p) ==
  \E i \in 1..Len(df.rows) :
    /\ df.rows[i]["pod"] = p
    /\ \E m \in Range(METRIC_ORDER) : df.rows[i][m] = NaN

\* a report that names the pod
ReportsPod(r, g, p) == r.dir = g /\ "pod" \in DOMAIN r /\ r.pod = p

\* C20 (as claimed): after the extraction of a merged directory, a pod whose
\* rows are incomplete has no trace and is reported by itself, and every
\* other pod of the directory has its trace
C20_IncompleteEntityFailsAlone ==
  (/\ pc \in {"merge", "done", "returned"}
   /\ idx > 1
   /\ ~HasFatalError(DirNamed(LastDir))) =>
    \A p \in PodIdsIn(merged_df) :
      LET got == SelectSeq(TracesOf(LastDir), LAMBDA x : x.meta.pod_id = p)
      IN IF IsIncomplete(merged_df, p)
         THEN /\ got = <<>>
              /\ \E i \in 1..Len(reported) : ReportsPod(reported[i], LastDir, p)
         ELSE Len(got) = 1

(***************************************************************************)
(* Properties of the order of the steps and of the trace counts, over      *)
(* Spec.                                                                   *)
(***************************************************************************)
\* C21 (as claimed): for a directory whose name does not have the form
\* <workload>_r<N>, the name error comes before any loading: its sources are
\* never located and merged, so the loop never stands after its merge
C21_NameErrorBeforeLoading ==
  \A k \in 1..Len(exp_dirs) :
    ~extract_experiment_info(exp_dirs[k]).ok =>
      ~(/\ pc = "extract"
        /\ idx = k
        /\ merged_df = merge_experiment_data(DirNamed(exp_dirs[k])).df)

\* C22 (as claimed): a directory processed without an error has contributed
\* as many traces as the replica count in its name says
C22_TraceCountIsReplicaCount ==
  \A k \in 1..Len(exp_dirs) :
    (k < idx /\ ~IsReported(exp_dirs[k])) =>
      Len(TracesOf(exp_dirs[k])) = extract_experiment_info(exp_dirs[k]).replica_count

(***************************************************************************)
(* Properties of load_metric_data, over SpecLoad.                          *)
(***************************************************************************)
\* the columns the claim requires of a source of metric m
RequiredColumns(m) ==
  {"timestamp", "value"} \cup (IF IsPerPod(m) THEN {"pod"} ELSE {})

\* C23: load_metric_data fails when the source lacks a required column
\* (timestamp and value, and pod for a per-pod metric only); otherwise it
\* returns a series of the required columns, value under the metric's name,
\* with one row per row of the source, and so an empty series without an
\* error for a source with zero rows
C23_RequiredColumnsAndEmptySeries ==
  (pc = "returned" /\ call.op = "load_metric_data") =>
    IF RequiredColumns(call.metric_name) \subseteq call.csv_file.cols
    THEN /\ ret.ok
         /\ Range(ret.df.cols)
              = (RequiredColumns(call.metric_name) \ {"value"}) \cup {call.metric_name}
         /\ Len(ret.df.rows) = Len(call.csv_file.rows)
         /\ \A i \in 1..Len(ret.df.rows) :
              /\ ret.df.rows[i]["timestamp"] = call.csv_file.rows[i]["timestamp"]
              /\ ret.df.rows[i][call.metric_name] = call.csv_file.rows[i]["value"]
    ELSE ~ret.ok

\* a system metric's source with the two required columns and no row:
\* an empty series comes back
C23_Witness ==
  /\ pc = "returned"
  /\ call.op = "load_metric_data"
  /\ call.metric_name = "gpu_power"
  /\ call.csv_file.cols = {"timestamp", "value"}
  /\ call.csv_file.rows = <<>>
  /\ ret.ok
  /\ ret.df.rows = <<>>
  /\ ret.df.cols = <<"timestamp", "gpu_power">>

(***************************************************************************)
(* Properties of the metric catalog, over SpecOne.                         *)
(***************************************************************************)
\* the number of positions of the sequence s that hold x
Occurrences(s, x) == Cardinality({i \in 1..Len(s) : s[i] = x})

\* C24: the catalog has 15 different names, 6 of them per-pod and 9 system
\* metrics, no name is both and every name is one of the two; the merge
\* loads every catalog metric once, so a merged table has the columns
\* timestamp and pod and one column per catalog metric, and in every trace
\* the per-pod columns hold observations with a pod id (that of the trace)
\* and the system columns observations without one
C24_CatalogPartition ==
  /\ Len(METRIC_ORDER) = 15
  /\ Cardinality(Range(METRIC_ORDER)) = 15
  /\ Len(PER_POD_METRICS) = 6
  /\ Cardinality(Range(PER_POD_METRICS)) = 6
  /\ Len(SYSTEM_METRICS) = 9
  /\ Cardinality(Range(SYSTEM_METRICS)) = 9
  /\ Range(PER_POD_METRICS) \cap Range(SYSTEM_METRICS) = {}
  /\ Range(PER_POD_METRICS) \cup Range(SYSTEM_METRICS) = Range(METRIC_ORDER)
  /\ \A m \in Range(METRIC_ORDER) : Occurrences(LoadOrder, m) = 1
  /\ pc = "extract" =>
       /\ Len(merged_df.cols) = 17
       /\ \A c \in {"timestamp", "pod"} \cup Range(METRIC_ORDER) :
            Occurrences(merged_df.cols, c) = 1
  /\ \A x \in Traces :
       \A i \in 1..Len(x.trace) : \A j \in 1..Len(x.trace[i]) :
         x.trace[i][j] # NaN =>
           ObsPod(x.trace[i][j])
             = IF METRIC_ORDER[j] \in Range(PER_POD_METRICS) THEN x.meta.pod_id ELSE 0

\* a directory with two pods was merged and extracted: its table has the 17
\* columns and the trace of pod 2 holds values of both kinds
C24_Witness ==
  /\ ExtractedLast
  /\ Len(merged_df.cols) = 17
  /\ Len(merged_df.rows) = 2 * MaxT
  /\ \E x \in Range(TracesOf(LastDir)) :
       /\ x.meta.pod_id = 2
       /\ ObsPod(x.trace[1][MetricIndex("memory_usage")]) = 2
       /\ x.trace[1][MetricIndex("inference_total")] # NaN
       /\ ObsPod(x.trace[1][MetricIndex("inference_total")]) = 0

(***************************************************************************)
(* Properties of the batch forms, over SpecBatch.                          *)
(***************************************************************************)
\* C25: every call of normalize, denormalize, normalize_batch or
\* denormalize_batch leaves the normalizer (ranges, mins, maxs, scales) and
\* the collection of input traces as they were, and element i of a batch
\* result is what the single-trace form returns for trace i under the table
\* the normalizer holds, whatever was called before and whatever the other
\* traces of the batch are
C25_Stateless ==
  [][/\ normalizer' = normalizer
     /\ all_pod_traces' = all_pod_traces
     /\ call'.op = "normalize" =>
          ret'.normalized = normalize(normalizer, all_pod_traces[idx'].trace)
     /\ call'.op = "denormalize" =>
          ret'.denormalized = denormalize(normalizer, ret.normalized)
     /\ call'.op = "normalize_batch" =>
          /\ Len(ret'.normalized_batch) = Len(all_pod_traces)
          /\ \A i \in 1..Len(all_pod_traces) :
               ret'.normalized_batch[i] = normalize(normalizer, all_pod_traces[i].trace)
     /\ call'.op = "denormalize_batch" =>
          /\ Len(ret'.denormalized_batch) = Len(ret.normalized_batch)
          /\ \A i \in 1..Len(ret.normalized_batch) :
               ret'.denormalized_batch[i]
                 = denormalize(normalizer, ret.normalized_batch[i])]_vars

\* a batch of two different traces was normalized and denormalized: the two
\* results differ and the normalizer still holds the vectors of its table
C25_Witness ==
  /\ call.op = "denormalize_batch"
  /\ Len(all_pod_traces) = 2
  /\ all_pod_traces[1].trace # all_pod_traces[2].trace
  /\ call.normalized_traces[1] # call.normalized_traces[2]
  /\ ret.denormalized_batch[1] # ret.denormalized_batch[2]
  /\ normalizer.mins = VectorsOf(normalizer.ranges).mins
  /\ normalizer.scales = VectorsOf(normalizer.ranges).scales

(***************************************************************************)
(* Properties of extract_pod_traces, over SpecExtract.                     *)
(***************************************************************************)
\* the catalog metrics that are not columns of the table
AbsentMetrics(df) == Range(METRIC_ORDER) \ Range(df.cols)

\* C26: on a table with rows (so with an entity) from which a catalog metric
\* column is absent, extract_pod_traces fails with an error that names an
\* absent metric, at the first entity and so before any trace is made; and
\* whatever the table, every trace it returns has 15 columns in every row
C26_AbsentColumnFails ==
  (pc = "returned" /\ call.op = "extract_pod_traces") =>
    /\ (merged_df.rows # <<>> /\ AbsentMetrics(merged_df) # {}) =>
         /\ ~ret.ok
         /\ ret.error = "ValueError"
         /\ ret.metric \in AbsentMetrics(merged_df)
         /\ ret.pod \in PodIdsIn(merged_df)
    /\ ret.ok =>
         \A n \in 1..Len(ret.pod_traces) :
           \A i \in 1..Len(ret.pod_traces[n].trace) :
             Len(ret.pod_traces[n].trace[i]) = 15

\* a table of two pods without its gpu_power and memory_usage columns: the
\* error names gpu_power, the first of the two in catalog order
C26_Witness ==
  /\ pc = "returned"
  /\ call.op = "extract_pod_traces"
  /\ Cardinality(PodIdsIn(merged_df)) = 2
  /\ AbsentMetrics(merged_df) = {"gpu_power", "memory_usage"}
  /\ ~ret.ok
  /\ ret.metric = "gpu_power"

(***************************************************************************)
(* Properties of the loop over the directories, over SpecGroups.           *)
(***************************************************************************)
\* the trace lists that merging and extracting the directory dir by itself
\* may give: none when either step fails
ResultAlone(dir) ==
  TheOne({IF ~merged.ok THEN {<<>>}
          ELSE {IF res.ok THEN res.pod_traces ELSE <<>> :
                  res \in extract_pod_traces(merged.df, dir.name)} :
            merged \in {merge_experiment_data(dir)}})

\* C27: when load_phase1_data returns, the traces of every directory are
\* what that directory gives by itself, whichever other directory stands
\* beside it and whether that one failed, and the collection holds them
\* directory after directory in ascending order of the directory names
C27_GroupsIndependent ==
  pc = "returned" =>
    /\ \A g \in fs : TracesOf(g.name) \in ResultAlone(g)
    /\ Len(all_pod_traces)
         = Len(Flatten([k \in 1..Len(exp_dirs) |-> TracesOf(exp_dirs[k])]))
    /\ \A i, j \in 1..Len(all_pod_traces) :
         i < j =>
           \/ all_pod_traces[i].meta.experiment_dir = all_pod_traces[j].meta.experiment_dir
           \/ NameLess(all_pod_traces[i].meta.experiment_dir,
                       all_pod_traces[j].meta.experiment_dir)

\* distilbert_r1, resnet50 and whisper_r1 were processed in this order: the
\* second, whose name cannot be read, was reported, and the collection is
\* the trace of the first and then the trace of the third
C27_Witness ==
  /\ pc = "returned"
  /\ exp_dirs = << <<"distilbert", "_", "r", "1">>, <<"resnet50">>,
                   <<"whisper", "_", "r", "1">> >>
  /\ IsReported(<<"resnet50">>)
  /\ Len(all_pod_traces) = 2
  /\ all_pod_traces[1].meta.experiment_dir = <<"distilbert", "_", "r", "1">>
  /\ all_pod_traces[2].meta.experiment_dir = <<"whisper", "_", "r", "1">>

(***************************************************************************)
(* Properties of the merged table and of its split into traces, over       *)
(* SpecOne.                                                                *)
(***************************************************************************)
\* the key of a source row of metric m: (timestamp, pod), or (timestamp)
SourceKey(m, r) ==
  IF IsPerPod(m) THEN <<r["timestamp"], r["pod"]>> ELSE <<r["timestamp"]>>

\* the keys of the rows of a series of metric m, row by row
SourceKeys(m, rows) == [i \in 1..Len(rows) |-> SourceKey(m, rows[i])]

\* no two rows of the series have the same key
HasUniqueKeys(m, rows) ==
  Cardinality(Range(SourceKeys(m, rows))) = Len(rows)

\* the (timestamp, pod) pairs that occur in some per-pod series
PerPodKeys(dir) ==
  UNION {Range(SourceKeys(m, SourceRows(dir, m))) : m \in Range(PER_POD_METRICS)}

\* what the series of metric m observed at timestamp t for pod p: NaN if nothing
ObservedAt(m, rows, t, p) ==
  IF \E i \in 1..Len(rows) :
       SourceKey(m, rows[i]) = SourceKey(m, [timestamp |-> t, pod |-> p])
  THEN rows[CHOOSE i \in 1..Len(rows) :
              SourceKey(m, rows[i]) = SourceKey(m, [timestamp |-> t, pod |-> p])]["value"]
  ELSE NaN

\* the directory being processed holds no series with two rows of one key
UniqueKeysInDir ==
  \A m \in Range(METRIC_ORDER) :
    HasUniqueKeys(m, SourceRows(DirNamed(exp_dirs[idx]), m))

\* C28: when no series of the directory has two rows with the same key, its
\* merged table has exactly one row for each (timestamp, pod) pair that some
\* per-pod series observed, and the row holds in each metric column what that
\* metric's series observed at the key, NaN when it observed nothing
C28_OuterJoinKeys ==
  (pc = "extract" /\ UniqueKeysInDir) =>
    /\ Len(merged_df.rows) = Cardinality(PerPodKeys(DirNamed(exp_dirs[idx])))
    /\ {<<merged_df.rows[i]["timestamp"], merged_df.rows[i]["pod"]>> :
          i \in 1..Len(merged_df.rows)} = PerPodKeys(DirNamed(exp_dirs[idx]))
    /\ \A m \in Range(METRIC_ORDER) :
         \A rows \in {SourceRows(DirNamed(exp_dirs[idx]), m)} :
           \A i \in 1..Len(merged_df.rows) :
             merged_df.rows[i][m]
               = ObservedAt(m, rows, merged_df.rows[i]["timestamp"],
                            merged_df.rows[i]["pod"])

\* the cpu_psi series, the first one merged, lacks the key (1, 1) that the
\* other per-pod series have: the table has the row, with NaN for cpu_psi
C28_Witness ==
  /\ pc = "extract"
  /\ UniqueKeysInDir
  /\ <<1, 1>> \in PerPodKeys(DirNamed(exp_dirs[idx]))
  /\ ObservedAt("cpu_psi", SourceRows(DirNamed(exp_dirs[idx]), "cpu_psi"), 1, 1) = NaN
  /\ \E i \in 1..Len(merged_df.rows) :
       /\ merged_df.rows[i]["timestamp"] = 1
       /\ merged_df.rows[i]["pod"] = 1
       /\ merged_df.rows[i]["cpu_psi"] = NaN
       /\ merged_df.rows[i]["memory_usage"] # NaN

\* the row r of the merged table as a trace row: its metric values in
\* catalog order
AsTraceRow(r) == [j \in 1..Len(METRIC_ORDER) |-> r[METRIC_ORDER[j]]]

\* the rows of the merged table that belong to pod p, as trace rows
MergedRowsOf(p) ==
  [i \in 1..Len(SelectSeq(merged_df.rows, LAMBDA r : r["pod"] = p)) |->
     AsTraceRow(SelectSeq(merged_df.rows, LAMBDA r : r["pod"] = p)[i])]

\* C29: the traces of the directory extracted last split its merged table by
\* pod: the trace of a pod holds exactly the rows of that pod, each as often
\* as the table has it, no pod has two traces, and the row counts of the
\* traces sum to the number of rows of the table
C29_ExtractionPartitionsRows ==
  ExtractedLast =>
    /\ Len(Flatten([n \in 1..Len(TracesOf(LastDir)) |-> TracesOf(LastDir)[n].trace]))
         = Len(merged_df.rows)
    /\ \A n, o \in 1..Len(TracesOf(LastDir)) :
         TracesOf(LastDir)[n].meta.pod_id = TracesOf(LastDir)[o].meta.pod_id => n = o
    /\ \A x \in Range(TracesOf(LastDir)) :
         /\ Len(x.trace) = Len(MergedRowsOf(x.meta.pod_id))
         /\ \A v \in Range(x.trace) \cup Range(MergedRowsOf(x.meta.pod_id)) :
              CountRows(x.trace, v) = CountRows(MergedRowsOf(x.meta.pod_id), v)

\* a table of two pods in which a repeated observation gives pod 1 one row
\* more than pod 2: the two traces have these row counts
C29_Witness ==
  /\ ExtractedLast
  /\ Cardinality(PodIdsIn(merged_df)) = 2
  /\ Len(merged_df.rows) = 2 * MaxT + 1
  /\ \E x, y \in Range(TracesOf(LastDir)) :
       /\ x.meta.pod_id = 1
       /\ y.meta.pod_id = 2
       /\ Len(x.trace) = MaxT + 1
       /\ Len(y.trace) = MaxT

(***************************************************************************)
(* Properties of the channel order, over SpecBatch.                        *)
(***************************************************************************)
\* the loader's name of the metric that the normalizer calls name: the
\* inference metrics are named without the prefix there, and inference_total
\* is total_inferences
LoaderName(name) ==
  CASE name = "latency_avg" -> "inference_latency_avg"
    [] name = "latency_p50" -> "inference_latency_p50"
    [] name = "latency_p95" -> "inference_latency_p95"
    [] name = "latency_p99" -> "inference_latency_p99"
    [] name = "throughput" -> "inference_throughput"
    [] name = "total_inferences" -> "inference_total"
    [] OTHER -> name

\* C30: channel j of the normalizer is the metric of column j of the traces:
\* METRIC_NAMES[j] names the metric METRIC_ORDER[j], and a normalizer's
\* mins[j] and maxs[j] are the bounds its table gives for that name, with
\* scales[j] = maxs[j] - mins[j].  The fixed table has a range for each of
\* the 15 names
C30_ChannelOrderAgrees ==
  /\ Len(METRIC_NAMES) = Len(METRIC_ORDER)
  /\ \A j \in 1..Len(METRIC_ORDER) : LoaderName(METRIC_NAMES[j]) = METRIC_ORDER[j]
  /\ DOMAIN ABSOLUTE_RANGES = Range(METRIC_NAMES)
  /\ normalizer # None =>
       /\ normalizer.metric_names = METRIC_NAMES
       /\ \A j \in 1..Len(METRIC_ORDER) :
            /\ normalizer.mins[j] = normalizer.ranges[METRIC_NAMES[j]][1]
            /\ normalizer.maxs[j] = normalizer.ranges[METRIC_NAMES[j]][2]
            /\ normalizer.scales[j] = FSub(normalizer.maxs[j], normalizer.mins[j])

\* a normalizer whose table gives gpu_temperature the range (20, 100): the
\* bounds stand in channel 5, the column of gpu_temperature in a trace
C30_Witness ==
  /\ normalizer # None
  /\ normalizer.ranges["gpu_temperature"] = <<FromInt(20), FromInt(100)>>
  /\ METRIC_ORDER[5] = "gpu_temperature"
  /\ normalizer.mins[5] = FromInt(20)
  /\ normalizer.scales[5] = FromInt(80)
  /\ pc = "normalized"

====
